---- MODULE Spec2Model ----
(***************************************************************************)
(* LV2 discovery retrieval (run_discovery_retrieval.py): embedding cache,  *)
(* index cache, per-source-row retrieval, lead merging and ranking; the    *)
(* heuristic scores of hybrid_scoring.py and the families of lang.py.      *)
(* Strings are sequences of one-character strings.  Row indices inside     *)
(* rows, hits and keys are 0-based as in the program; TLA+ sequences are   *)
(* 1-based, so rows[idx] of the program is rows[idx + 1] here.             *)
(***************************************************************************)
EXTENDS Integers, Sequences, FiniteSets, TLC

VARIABLES
    cacheVec,        \* outputs/embeddings/<model>/<lang>/<stage>/vectors.npy
    cacheRows,       \* outputs/embeddings/<model>/<lang>/<stage>/rows.jsonl
    indexFile,       \* outputs/indexes/<model>/<lang>/<stage>/index.faiss
    pc,              \* position of main
    cfg,             \* parsed command line of the current run
    tm, ts,          \* loop positions: model, target spec (target phase)
    target_indexes,  \* model -> sequence of (spec, index, rows)
    si, sm,          \* loop positions: source spec, model (source phase)
    source_rows,     \* rows loaded for the current source spec
    svecs,           \* source_vectors_by_model
    srows,           \* source_rows_by_model
    i,               \* position in enumerate(source_rows), 0-based
    hm, ht, hk,      \* loop positions: model, target index, hit
    results,         \* (scores[0], idxs[0]) of the current search, zipped
    candidates,      \* the candidates dict, in insertion order
    out,             \* lines written to the output file of the run
    pend,            \* save_vectors in progress: vectors written, rows not yet
    ret,             \* last value returned by embed_corpus
    embeds,          \* embedding-model invocations of the current run
    exc,             \* how the last run ended
    runs,            \* runs started
    kills,           \* runs among them killed inside save_vectors
    run_id,          \* the second main read from the clock (line 536)
    prev,            \* what the run before left, when it had the same arguments
    call,            \* a call of a scoring function: its name and arguments
    result,          \* what that call returned
    writer,          \* a producer inside embed_corpus, file operation by file operation
    reader           \* a worker inside maybe_load_vectors

vars == <<cacheVec, cacheRows, indexFile, pc, cfg, tm, ts, target_indexes,
          si, sm, source_rows, svecs, srows, i, hm, ht, hk, results,
          candidates, out, pend, ret, embeds, exc, runs, kills, run_id, prev,
          call, result, writer, reader>>
concVars == <<writer, reader>>
scoreVars == <<call, result>>
pipeVars == <<pc, cfg, tm, ts, target_indexes, si, sm, source_rows, svecs, srows,
              i, hm, ht, hk, results, candidates, out, pend, ret, embeds, exc,
              runs, kills, run_id, prev>>

----------------------------------------------------------------------------
(* Bounds *)

MaxTopK == 2
MaxRuns == 2
MaxOut == 2
MaxLen == 3
MaxTexts == 3
MaxSpecLen == 4
MaxLeads == 2

----------------------------------------------------------------------------
(* Python values *)

\* None; a one-element sequence so that it compares with strings
None == <<"<None>">>

\* truthiness of a string-or-None value, as used by `x or y`
Truthy(x) == x # None /\ x # <<>>

Or(x, y) == IF Truthy(x) THEN x ELSE y

\* dict.get(key)
Get(d, k) == IF k \in DOMAIN d THEN d[k] ELSE None

IsSpace(c) == c \in {" ", "\t", "\n"}

RECURSIVE LStrip(_)
LStrip(s) == IF s # <<>> /\ IsSpace(Head(s)) THEN LStrip(Tail(s)) ELSE s

RECURSIVE RStrip(_)
RStrip(s) ==
    IF s # <<>> /\ IsSpace(s[Len(s)]) THEN RStrip(SubSeq(s, 1, Len(s) - 1)) ELSE s

\* str.strip()
Strip(s) == RStrip(LStrip(s))

\* str(x or "")
StrOrEmpty(x) == IF Truthy(x) THEN x ELSE <<>>

\* str.split(): the whitespace-separated words
RECURSIVE Split(_, _, _)
Split(s, cur, acc) ==
    IF s = <<>> THEN (IF cur = <<>> THEN acc ELSE Append(acc, cur))
    ELSE IF IsSpace(Head(s))
         THEN Split(Tail(s), <<>>, IF cur = <<>> THEN acc ELSE Append(acc, cur))
         ELSE Split(Tail(s), Append(cur, Head(s)), acc)

\* " ".join(words)
RECURSIVE Join(_)
Join(ws) ==
    IF ws = <<>> THEN <<>>
    ELSE IF Len(ws) = 1 THEN ws[1]
    ELSE ws[1] \o <<" ">> \o Join(Tail(ws))

_safe_text(text) == Strip(Join(Split(StrOrEmpty(text), <<>>, <<>>)))

DigitChars == <<"0", "1", "2", "3", "4", "5", "6", "7", "8", "9">>

\* str(n) for n >= 0
RECURSIVE IntStr(_)
IntStr(n) == IF n < 10 THEN <<DigitChars[n + 1]>>
             ELSE IntStr(n \div 10) \o <<DigitChars[(n % 10) + 1]>>

Min(a, b) == IF a < b THEN a ELSE b

----------------------------------------------------------------------------
(* Corpus specs and corpus files *)

\* CorpusSpec(lang, stage, path)
CorpusSpec(lang, stage, path) == [lang |-> lang, stage |-> stage, path |-> path]

AraCla1 == CorpusSpec(<<"a", "r", "a">>, <<"c", "l", "a">>, "p1")
AraCla2 == CorpusSpec(<<"a", "r", "a">>, <<"c", "l", "a">>, "p2")
EngMod2 == CorpusSpec(<<"e", "n", "g">>, <<"m", "o", "d">>, "p2")

\* one record of a corpus file
Rec(id, lemma) == [k \in {"id", "lemma"} |-> IF k = "id" THEN id ELSE lemma]

\* the corpus files on disk, one dict per line
CorpusFile(path) ==
    IF path = "p1"
    THEN << Rec(<<"k">>, <<"k", "t", "b">>), Rec(None, <<" ", "d", "m">>) >>
    ELSE << Rec(<<"w">>, <<"d", "m">>), Rec(<<"x">>, <<"k", "a", "t", "b">>),
            Rec(<<"m">>, <<"m", "a">>) >>

\* LexemeRow(row_idx, data)
LexemeRow(row_idx, data) == [row_idx |-> row_idx, data |-> data]

\* LexemeRow.lemma
lemma(r) == Strip(StrOrEmpty(Get(r.data, "lemma")))

\* LexemeRow.lexeme_id
lexeme_id(r) ==
    LET s == Strip(StrOrEmpty(Get(r.data, "id")))
    IN  IF s # <<>> THEN s ELSE <<"r", "o", "w", ":">> \o IntStr(r.row_idx)

\* read_jsonl_rows(path, limit) over the lines of a file
read_jsonl_rows(lines, limit) ==
    LET n == IF limit > 0 THEN Min(limit, Len(lines)) ELSE Len(lines)
    IN  [k \in 1..n |-> LexemeRow(k - 1, lines[k])]

load_lexemes(spec, limit) == read_jsonl_rows(CorpusFile(spec.path), limit)

\* the lines write_jsonl writes for save_vectors: r.data | {"_row_idx": r.row_idx}
RowLines(rows) ==
    [k \in 1..Len(rows) |-> ("_row_idx" :> rows[k].row_idx) @@ rows[k].data]

----------------------------------------------------------------------------
(* Embedding models and the flat inner-product index *)

Models == {"semantic", "form"}

\* cache_model = f"api_{model}" if backend == "api" else model
CacheModel(backend, model) == <<backend = "api", model>>

\* cache_paths: the directory shared by vectors.npy, rows.jsonl / index.faiss
cache_paths(cache_model, spec) == <<cache_model, spec.lang, spec.stage>>

CacheKeys ==
    {cache_paths(CacheModel("local", m), s) : m \in Models, s \in {AraCla1, EngMod2}}

\* the embedder embed_corpus constructs for (backend, model)
Embedder(backend, model, c) ==
    IF backend = "api" THEN <<"gemini", model>>
    ELSE IF model = "semantic" THEN <<"bge-m3", c.semantic_model>>
    ELSE <<"byt5", c.form_model>>

\* one vector: the embedder that produced it and the text it embeds
Vec(e, text) == [e |-> e, t |-> text]

Chars == <<"k", "t", "b", "d", "m", "a", "w", "x", "r", "o", ":", "0", "1", " ">>

CharCode(c) == CHOOSE n \in 1..Len(Chars) : Chars[n] = c

RECURSIVE CodeSum(_)
CodeSum(s) == IF s = <<>> THEN 0 ELSE CharCode(Head(s)) + CodeSum(Tail(s))

\* direction of a vector on the unit circle, in steps of 60 degrees
Angle(v) ==
    IF v.e[1] = "byt5" THEN (2 * Len(v.t) + CharCode(v.t[Len(v.t)])) % 6
    ELSE CodeSum(v.t) % 6

\* 100 * cos(k * 60 degrees)
Cos6 == <<100, 50, -50, -100, -50, 50>>

\* inner product of two normalized vectors, times 100
Dot(q, v) == Cos6[((Angle(q) - Angle(v)) % 6) + 1]

\* score FAISS reports for a padded slot
PadScore == -1000000

\* position p (1-based) ranks before position r for query q
Before(q, vs, p, r) ==
    Dot(q, vs[p]) > Dot(q, vs[r]) \/ (Dot(q, vs[p]) = Dot(q, vs[r]) /\ p < r)

\* index.search for one query: k (score, idx) pairs, best first, padded with -1
IndexSearch(vs, q, k) ==
    [h \in 1..k |->
        IF h <= Len(vs)
        THEN LET p == CHOOSE p \in 1..Len(vs) :
                        Cardinality({r \in 1..Len(vs) : Before(q, vs, r, p)}) = h - 1
             IN  [score |-> Dot(q, vs[p]), idx |-> p - 1]
        ELSE [score |-> PadScore, idx |-> -1]]

\* build_flat_ip(vectors): the index holds the vectors themselves
build_flat_ip(vectors) == vectors

----------------------------------------------------------------------------
(* Numbers of the scoring code: Python floats, held as exact fractions     *)
(* <<numerator, denominator>> in lowest terms with a positive denominator  *)

RECURSIVE GCD(_, _)
GCD(a, b) == IF b = 0 THEN a ELSE GCD(b, a % b)

Abs(n) == IF n < 0 THEN -n ELSE n

Rat(n, d) == LET g == GCD(Abs(n), d) IN <<n \div g, d \div g>>

Zero == <<0, 1>>
One == <<1, 1>>

RatAdd(x, y) == Rat(x[1] * y[2] + y[1] * x[2], x[2] * y[2])
RatMul(x, y) == Rat(x[1] * y[1], x[2] * y[2])
\* x / y for y > 0
RatDiv(x, y) == Rat(x[1] * y[2], x[2] * y[1])
RatLess(x, y) == x[1] * y[2] < y[1] * x[2]
RatLeq(x, y) == x[1] * y[2] <= y[1] * x[2]
RatMin(x, y) == IF RatLess(y, x) THEN y ELSE x

\* floor(n * 10^k / d) and what is left over, by long division
RECURSIVE FloorScaled(_, _, _)
FloorScaled(n, d, k) ==
    IF k = 0 THEN [q |-> n \div d, r |-> n % d]
    ELSE LET p == FloorScaled(n, d, k - 1)
         IN  [q |-> p.q * 10 + (p.r * 10) \div d, r |-> (p.r * 10) % d]

\* round(x, 4): to the nearest ten-thousandth, a tie to the even one
Round4(x) ==
    LET p == FloorScaled(x[1], x[2], 4)
        up == 2 * p.r > x[2] \/ (2 * p.r = x[2] /\ p.q % 2 = 1)
    IN  Rat(p.q + (IF up THEN 1 ELSE 0), 10000)

----------------------------------------------------------------------------
(* hybrid_scoring.py: text helpers.  A character outside ASCII, and the    *)
(* backquote, is written as its code point: "U+0648", "U+0060".            *)

UpperChars == <<"A", "B", "C", "D", "E", "F", "G", "H", "I", "J", "K", "L", "M",
                "N", "O", "P", "Q", "R", "S", "T", "U", "V", "W", "X", "Y", "Z">>
LowerChars == <<"a", "b", "c", "d", "e", "f", "g", "h", "i", "j", "k", "l", "m",
                "n", "o", "p", "q", "r", "s", "t", "u", "v", "w", "x", "y", "z">>

\* str.casefold() / str.lower() on one character
LowerChar(c) ==
    IF \E p \in 1..26 : UpperChars[p] = c
    THEN LowerChars[CHOOSE p \in 1..26 : UpperChars[p] = c]
    ELSE c

Lower(s) == [p \in 1..Len(s) |-> LowerChar(s[p])]

\* _DEFAULT_VOWELS
_DEFAULT_VOWELS ==
    {"a", "e", "i", "o", "u", "y", "U+0251", "U+00E6", "U+025B", "U+026A",
     "U+0254", "U+028A", "U+028C", "U+0259", "U+0268", "U+0289", "U+026F"}

\* _ARABIC_MATRES: waw, ya, alif, alif with hamza above / below, alif madda
_ARABIC_MATRES == {"U+0648", "U+064A", "U+0627", "U+0623", "U+0625", "U+0622"}

\* _ARABIC_DIACRITICS_RE: U+064B..U+0652, U+0670, U+0640
ArabicDiacritics ==
    {"U+064B", "U+064C", "U+064D", "U+064E", "U+064F", "U+0650", "U+0651",
     "U+0652", "U+0670", "U+0640"}

\* _PUNCT_RE: whitespace, hyphens and dashes, punctuation, brackets, slashes
PunctChars ==
    {" ", "\t", "\n", "-", "U+2010", "U+2011", "U+2012", "U+2013", "U+2014",
     "U+2015", "_", ".", ",", ";", ":", "!", "?", "\"", "'", "U+0060", "~", "(", ")",
     "[", "]", "{", "}", "<", ">", "|", "/", "\\"}

\* str.isalpha() on one character: Latin letters, IPA letters, Arabic letters
\* (the diacritics U+064B..U+0652 and U+0670 are marks, not letters)
IsAlpha(c) ==
    \/ \E p \in 1..26 : c = UpperChars[p] \/ c = LowerChars[p]
    \/ c \in _DEFAULT_VOWELS
    \/ c \in _ARABIC_MATRES
    \/ c \in {"U+0643", "U+062A", "U+0628", "U+0640"}

\* the characters of s that are not in the set
RECURSIVE Without(_, _)
Without(s, set) ==
    IF s = <<>> THEN <<>>
    ELSE IF Head(s) \in set THEN Without(Tail(s), set)
    ELSE <<Head(s)>> \o Without(Tail(s), set)

\* _norm_text: NFKC, casefold, then the punctuation class is removed.  Of the
\* characters written in this module NFKC changes only U+2011, into U+2010,
\* and both are in the punctuation class
_norm_text(text) == Without(Lower(StrOrEmpty(text)), PunctChars)

\* length of the common run of a[p..ahi] and b[q..bhi] starting at p and q
RECURSIVE RunLen(_, _, _, _, _, _)
RunLen(a, b, p, q, ahi, bhi) ==
    IF p > ahi \/ q > bhi THEN 0
    ELSE IF a[p] # b[q] THEN 0
    ELSE 1 + RunLen(a, b, p + 1, q + 1, ahi, bhi)

\* SequenceMatcher.find_longest_match: the longest block, of those the one
\* starting earliest in a, of those the one starting earliest in b
find_longest_match(a, b, alo, ahi, blo, bhi) ==
    LET size(p, q) == RunLen(a, b, p, q, ahi, bhi)
        best == CHOOSE n \in 0..(ahi - alo + 1) :
                    /\ \A p \in alo..ahi, q \in blo..bhi : size(p, q) <= n
                    /\ n > 0 => \E p \in alo..ahi, q \in blo..bhi : size(p, q) = n
        besti == CHOOSE p \in alo..ahi :
                    /\ \E q \in blo..bhi : size(p, q) = best
                    /\ \A p2 \in alo..(p - 1), q \in blo..bhi : size(p2, q) < best
        bestj == CHOOSE q \in blo..bhi :
                    /\ size(besti, q) = best
                    /\ \A q2 \in blo..(q - 1) : size(besti, q2) < best
    IN  IF best = 0 THEN [a |-> alo, b |-> blo, size |-> 0]
        ELSE [a |-> besti, b |-> bestj, size |-> best]

\* SequenceMatcher.get_matching_blocks: total size of the blocks of
\* a[alo..ahi] against b[blo..bhi]
RECURSIVE Matches(_, _, _, _, _, _)
Matches(a, b, alo, ahi, blo, bhi) ==
    IF alo > ahi \/ blo > bhi THEN 0
    ELSE LET m == find_longest_match(a, b, alo, ahi, blo, bhi)
         IN  IF m.size = 0 THEN 0
             ELSE m.size
                  + Matches(a, b, alo, m.a - 1, blo, m.b - 1)
                  + Matches(a, b, m.a + m.size, ahi, m.b + m.size, bhi)

\* _seq_ratio: SequenceMatcher(None, a, b).ratio() = 2 * matches / (len a + len b)
_seq_ratio(a, b) ==
    LET x == StrOrEmpty(a)
        y == StrOrEmpty(b)
    IN  IF x = <<>> \/ y = <<>> THEN Zero
        ELSE Rat(2 * Matches(x, y, 1, Len(x), 1, Len(y)), Len(x) + Len(y))

\* _char_ngrams
_char_ngrams(text, n) ==
    IF Len(text) < n THEN {}
    ELSE {SubSeq(text, p, p + n - 1) : p \in 1..(Len(text) - n + 1)}

\* _jaccard
_jaccard(a, b) ==
    IF a = {} \/ b = {} THEN Zero
    ELSE Rat(Cardinality(a \cap b), Cardinality(a \cup b))

\* _skeleton
_skeleton(text) ==
    LET t == _norm_text(Without(text, ArabicDiacritics))
    IN  SelectSeq(t, LAMBDA ch : /\ IsAlpha(ch)
                                 /\ ch \notin _ARABIC_MATRES
                                 /\ ch \notin _DEFAULT_VOWELS)

\* _first_nonempty(*values)
RECURSIVE _first_nonempty(_)
_first_nonempty(values) ==
    IF values = <<>> THEN <<>>
    ELSE LET s == Strip(StrOrEmpty(Head(values)))
         IN  IF s # <<>> THEN s ELSE _first_nonempty(Tail(values))

----------------------------------------------------------------------------
(* hybrid_scoring.py: the component scores *)

\* HybridWeights(semantic, form, orthography, sound, skeleton, family_boost)
HybridWeights(semantic, form, orthography, sound, skeleton, family_boost) ==
    [semantic |-> semantic, form |-> form, orthography |-> orthography,
     sound |-> sound, skeleton |-> skeleton, family_boost |-> family_boost]

\* HybridWeights(): the defaults of the dataclass
DefaultWeights ==
    HybridWeights(Rat(40, 100), Rat(20, 100), Rat(15, 100), Rat(15, 100),
                  Rat(10, 100), Rat(5, 100))

\* orthography_score
orthography_score(source, target) ==
    LET a == _norm_text(_first_nonempty(<<Get(source, "translit"), Get(source, "lemma")>>))
        b == _norm_text(_first_nonempty(<<Get(target, "translit"), Get(target, "lemma")>>))
        grams_a == _char_ngrams(a, 2) \cup _char_ngrams(a, 3) \cup _char_ngrams(a, 4)
        grams_b == _char_ngrams(b, 2) \cup _char_ngrams(b, 3) \cup _char_ngrams(b, 4)
        j == _jaccard(grams_a, grams_b)
        r == _seq_ratio(a, b)
    IN  IF a = <<>> \/ b = <<>> THEN Zero
        ELSE RatAdd(RatMul(Rat(6, 10), j), RatMul(Rat(4, 10), r))

\* sound_score
sound_score(source, target) ==
    LET a == _norm_text(_first_nonempty(<<Get(source, "ipa"), Get(source, "ipa_raw")>>))
        b == _norm_text(_first_nonempty(<<Get(target, "ipa"), Get(target, "ipa_raw")>>))
    IN  IF a = <<>> \/ b = <<>> THEN None ELSE _seq_ratio(a, b)

\* skeleton_score
skeleton_score(source, target) ==
    LET a == _skeleton(_first_nonempty(<<Get(source, "ipa"), Get(source, "translit"),
                                         Get(source, "lemma")>>))
        b == _skeleton(_first_nonempty(<<Get(target, "ipa"), Get(target, "translit"),
                                         Get(target, "lemma")>>))
        grams_a == _char_ngrams(a, 2) \cup _char_ngrams(a, 3)
        grams_b == _char_ngrams(b, 2) \cup _char_ngrams(b, 3)
        j == _jaccard(grams_a, grams_b)
        r == _seq_ratio(a, b)
    IN  IF a = <<>> \/ b = <<>> THEN Zero
        ELSE RatAdd(RatMul(Rat(5, 10), j), RatMul(Rat(5, 10), r))

\* the component names, in the order combined_score appends them
Components == <<"semantic", "form", "orthography", "sound", "skeleton">>

RECURSIVE RatSum(_)
RatSum(xs) == IF xs = <<>> THEN Zero ELSE RatAdd(Head(xs), RatSum(Tail(xs)))

\* combined_score with an absent component counted as the value 0
combined_score_zero_filled(semantic_score, form_score, orthography, sound, skeleton, weights) ==
    LET value == [k \in {"semantic", "form", "orthography", "sound", "skeleton"} |->
                    CASE k = "semantic" -> semantic_score
                      [] k = "form" -> form_score
                      [] k = "orthography" -> orthography
                      [] k = "sound" -> sound
                      [] k = "skeleton" -> skeleton]
        parts == SelectSeq(Components, LAMBDA k : value[k] # None)
        weight_sum == RatSum([p \in 1..Len(Components) |-> weights[Components[p]]])
        total == RatSum([p \in 1..Len(parts) |-> RatMul(value[parts[p]], weights[parts[p]])])
    IN  IF parts = <<>> THEN [score |-> Zero, used |-> <<>>]
        ELSE IF RatLeq(weight_sum, Zero) THEN [score |-> Zero, used |-> <<>>]
        ELSE [score |-> RatDiv(total, weight_sum),
              used |-> [k \in {parts[p] : p \in 1..Len(parts)} |-> weights[k]]]

\* combined_score: (score, used)
combined_score(semantic_score, form_score, orthography, sound, skeleton, weights) ==
    LET value == [k \in {"semantic", "form", "orthography", "sound", "skeleton"} |->
                    CASE k = "semantic" -> semantic_score
                      [] k = "form" -> form_score
                      [] k = "orthography" -> orthography
                      [] k = "sound" -> sound
                      [] k = "skeleton" -> skeleton]
        parts == SelectSeq(Components, LAMBDA k : value[k] # None)
        weight_sum == RatSum([p \in 1..Len(parts) |-> weights[parts[p]]])
        total == RatSum([p \in 1..Len(parts) |-> RatMul(value[parts[p]], weights[parts[p]])])
    IN  IF parts = <<>> THEN [score |-> Zero, used |-> <<>>]
        ELSE IF RatLeq(weight_sum, Zero) THEN [score |-> Zero, used |-> <<>>]
        ELSE [score |-> RatDiv(total, weight_sum),
              used |-> [k \in {parts[p] : p \in 1..Len(parts)} |-> weights[k]]]

----------------------------------------------------------------------------
(* lang.py: language families *)

\* LANGUAGE_FAMILIES, in the order of the dict
FamilyNames ==
    <<"semitic", "indo_european_germanic", "indo_european_romance",
      "indo_european_hellenic", "indo_european_iranian", "turkic">>

LANGUAGE_FAMILIES ==
    "semitic" :>
      {
         <<"a", "r">>, <<"a", "r", "a">>, <<"a", "r", "b">>,
         <<"a", "r", "-", "q", "u", "r">>,
         <<"a", "r", "a", "-", "q", "u", "r">>,
         <<"a", "r", "-", "c", "l", "a">>, <<"h", "e">>, <<"h", "e", "b">>,
         <<"h", "b", "o">>, <<"s", "y", "r">>, <<"s", "y", "c">>,
         <<"a", "r", "c">>, <<"s", "a", "m">>, <<"j", "p", "a">>,
         <<"t", "m", "r">>, <<"a", "k", "k">>,
         <<"a", "k", "k", "a", "d", "i", "a", "n">>, <<"p", "h", "n">>,
         <<"x", "p", "u">>, <<"p", "u", "n", "i", "c">>,
         <<"p", "h", "o", "e", "n", "i", "c", "i", "a", "n">>,
         <<"u", "g", "a">>, <<"u", "g", "a", "r", "i", "t", "i", "c">>,
         <<"g", "e", "z">>, <<"g", "e", "e", "z">>, <<"a", "m">>,
         <<"a", "m", "h">>, <<"t", "i">>, <<"t", "i", "r">>
      }
    @@ "indo_european_germanic" :>
      {
         <<"e", "n">>, <<"e", "n", "g">>, <<"a", "n", "g">>,
         <<"e", "n", "m">>, <<"d", "e">>, <<"d", "e", "u">>,
         <<"g", "m", "h">>, <<"g", "o", "h">>, <<"n", "l">>,
         <<"n", "l", "d">>
      }
    @@ "indo_european_romance" :>
      {
         <<"l", "a">>, <<"l", "a", "t">>, <<"f", "r">>, <<"f", "r", "a">>,
         <<"f", "r", "o">>, <<"e", "s">>, <<"s", "p", "a">>, <<"i", "t">>,
         <<"i", "t", "a">>, <<"p", "t">>, <<"p", "o", "r">>
      }
    @@ "indo_european_hellenic" :>
      {
         <<"g", "r", "c">>, <<"e", "l">>, <<"e", "l", "l">>
      }
    @@ "indo_european_iranian" :>
      {
         <<"f", "a">>, <<"f", "a", "s">>, <<"p", "e", "s">>,
         <<"p", "r", "s">>, <<"s", "a">>, <<"s", "a", "n">>
      }
    @@ "turkic" :>
      {
         <<"t", "r">>, <<"t", "u", "r">>
      }

\* get_language_family without strip() and lower()
get_language_family_exact(lang) ==
    LET key == StrOrEmpty(lang)
        hits == SelectSeq(FamilyNames, LAMBDA f : key \in LANGUAGE_FAMILIES[f])
    IN  IF hits = <<>> THEN None ELSE <<Head(hits)>>

\* get_language_family: the first family listing the code, None when unknown
get_language_family(lang) ==
    LET key == Lower(Strip(StrOrEmpty(lang)))
        hits == SelectSeq(FamilyNames, LAMBDA f : key \in LANGUAGE_FAMILIES[f])
    IN  IF hits = <<>> THEN None ELSE <<Head(hits)>>

\* are_same_family
are_same_family(lang1, lang2) ==
    LET family1 == get_language_family(lang1)
        family2 == get_language_family(lang2)
    IN  IF family1 = None \/ family2 = None THEN FALSE ELSE family1 = family2

----------------------------------------------------------------------------
(* hybrid_scoring.py: compute_hybrid *)

\* dict.get(key, default)
GetOr(d, k, default) == IF k \in DOMAIN d THEN d[k] ELSE default

\* lines 174-177 of compute_hybrid
FamilyMatch(source, target) ==
    LET src_lang == Or(GetOr(source, "lang", <<>>), GetOr(source, "language", <<>>))
        tgt_lang == Or(GetOr(target, "lang", <<>>), GetOr(target, "language", <<>>))
    IN  Truthy(src_lang) /\ Truthy(tgt_lang) /\ are_same_family(src_lang, tgt_lang)

\* compute_hybrid
compute_hybrid(source, target, semantic, form, weights) ==
    LET ort == orthography_score(source, target)
        snd == sound_score(source, target)
        skel == skeleton_score(source, target)
        cs == combined_score(semantic, form, ort, snd, skel, weights)
        family_match == FamilyMatch(source, target)
        combined ==
            IF family_match /\ RatLess(Zero, weights.family_boost)
            THEN RatMin(One, RatMul(cs.score, RatAdd(One, weights.family_boost)))
            ELSE cs.score
    IN  [components |-> [orthography |-> ort, sound |-> snd, skeleton |-> skel],
         combined_score |-> Round4(combined),
         weights_used |-> cs.used,
         family_boost_applied |-> family_match]

----------------------------------------------------------------------------
(* Files of the cache *)

\* a file that does not exist / a file holding the given content
NoFile == [exists |-> FALSE, data |-> <<>>]
File(content) == [exists |-> TRUE, data |-> content]

----------------------------------------------------------------------------
(* Command lines *)

ModelLists == {<<"semantic">>, <<"semantic", "form">>}
TargetLists == {<<EngMod2>>, <<AraCla2, AraCla1>>}
SourceLists == {<<AraCla1>>}

\* the parsed arguments of one run (argparse, main)
Configs ==
    [models : ModelLists, sources : SourceLists, targets : TargetLists,
     backend : {"local"}, limit : {0, 1}, topk : 1..MaxTopK, max_out : {2},
     rebuild_cache : BOOLEAN, rebuild_index : BOOLEAN,
     semantic_model : {"BAAI/bge-m3"}, form_model : {"google/byt5-small"},
     no_hybrid : {TRUE}, weights : {DefaultWeights}]

\* --w-semantic ... --w-skeleton as given on the command line; family_boost is
\* not an argument and keeps its default (lines 523-529)
ZeroWeights == HybridWeights(Zero, Zero, Zero, Zero, Zero, Rat(5, 100))
WeightConfigs == {DefaultWeights, ZeroWeights}

\* runs with the heuristic scoring on, both models, two target files of one
\* language, the index never rebuilt
HybridConfigs ==
    [models : {<<"semantic", "form">>}, sources : SourceLists,
     targets : {<<AraCla2, AraCla1>>},
     backend : {"local"}, limit : {0, 1}, topk : {MaxTopK}, max_out : 1..MaxOut,
     rebuild_cache : BOOLEAN, rebuild_index : {FALSE},
     semantic_model : {"BAAI/bge-m3"}, form_model : {"google/byt5-small"},
     no_hybrid : {FALSE}, weights : WeightConfigs]

NoConfig == CHOOSE c \in Configs : TRUE

\* no earlier run with the same arguments
NoPrev == [same |-> FALSE, out |-> <<>>, vecs |-> <<>>]

\* no call of a scoring function
NoCall == [fn |-> "none"]
NoResult == [done |-> FALSE]

\* value of the run-local variables while no run is in progress
EmptyByModel == [m \in Models |-> <<>>]

LoopsCleared ==
    /\ tm' = 1 /\ ts' = 1 /\ si' = 1 /\ sm' = 1
    /\ i' = 0 /\ hm' = 1 /\ ht' = 1 /\ hk' = 1
    /\ target_indexes' = EmptyByModel
    /\ source_rows' = <<>>
    /\ svecs' = EmptyByModel
    /\ srows' = EmptyByModel
    /\ results' = <<>>
    /\ candidates' = <<>>
    /\ pend' = NoFile
    /\ ret' = NoFile

LocalsCleared ==
    /\ LoopsCleared
    /\ cfg' = NoConfig

Init ==
    /\ cacheVec = [k \in CacheKeys |-> NoFile]
    /\ cacheRows = [k \in CacheKeys |-> NoFile]
    /\ indexFile = [k \in CacheKeys |-> NoFile]
    /\ pc = "idle"
    /\ cfg = NoConfig
    /\ tm = 1 /\ ts = 1 /\ si = 1 /\ sm = 1
    /\ i = 0 /\ hm = 1 /\ ht = 1 /\ hk = 1
    /\ target_indexes = EmptyByModel
    /\ source_rows = <<>>
    /\ svecs = EmptyByModel
    /\ srows = EmptyByModel
    /\ results = <<>>
    /\ candidates = <<>>
    /\ out = <<>>
    /\ pend = NoFile
    /\ ret = NoFile
    /\ embeds = 0
    /\ exc = "none"
    /\ runs = 0
    /\ kills = 0
    /\ run_id = 0
    /\ prev = NoPrev
    /\ call = NoCall
    /\ result = NoResult
    /\ writer = NoFile
    /\ reader = [pc |-> "idle"]

----------------------------------------------------------------------------
(* main: start of a run *)

\* main, lines 515-562: parse the arguments, read the clock (the run starts
\* t seconds after the one before), enter the target loop.  cfg still holds
\* the arguments of the run before when that run returned 0.
Start(configs, ticks) ==
    /\ pc = "idle"
    /\ runs < MaxRuns
    /\ runs' = runs + 1
    /\ out' = <<>>
    /\ \E c \in configs, t \in ticks :
        /\ cfg' = c
        /\ run_id' = run_id + t
        /\ prev' = IF runs > 0 /\ exc = "none" /\ c = cfg
                   THEN [same |-> TRUE, out |-> out, vecs |-> cacheVec]
                   ELSE NoPrev
        /\ target_indexes' = [m \in Models |-> <<>>]
    /\ pc' = "targets"
    /\ tm' = 1 /\ ts' = 1
    /\ embeds' = 0
    /\ exc' = "running"
    /\ ret' = NoFile
    /\ UNCHANGED <<cacheVec, cacheRows, indexFile, si, sm, source_rows, svecs,
                   srows, i, hm, ht, hk, results, candidates, pend, kills>>
    /\ UNCHANGED <<concVars, scoreVars>>

\* a run with --no-hybrid, more than a second after the run before
StartRun == Start(Configs, {1})

\* a run with the heuristic scoring, in the same second or a later one
StartHybridRun == Start(HybridConfigs, {0, 1})

----------------------------------------------------------------------------
(* embed_corpus *)

\* the call of embed_corpus main is about to make
CurModel == IF pc = "targets" THEN cfg.models[tm] ELSE cfg.models[sm]
CurSpec == IF pc = "targets" THEN cfg.targets[ts] ELSE cfg.sources[si]
CurRows == IF pc = "targets" THEN load_lexemes(CurSpec, cfg.limit) ELSE source_rows
CurKey == cache_paths(CacheModel(cfg.backend, CurModel), CurSpec)

\* maybe_load_vectors handing back the rows in the opposite order
maybe_load_vectors_reversed(vf, rf) ==
    IF vf.exists /\ rf.exists
    THEN LET rows == read_jsonl_rows(rf.data, 0)
         IN  [exists |-> TRUE, vecs |-> vf.data,
              rows |-> [k \in 1..Len(rows) |-> rows[Len(rows) + 1 - k]]]
    ELSE [exists |-> FALSE, vecs |-> <<>>, rows |-> <<>>]

\* maybe_load_vectors(vectors_path, rows_path) on the files of one key
maybe_load_vectors(vf, rf) ==
    IF vf.exists /\ rf.exists
    THEN [exists |-> TRUE, vecs |-> vf.data, rows |-> read_jsonl_rows(rf.data, 0)]
    ELSE [exists |-> FALSE, vecs |-> <<>>, rows |-> <<>>]

\* the guard of lines 135-138 with the rebuild flag read the wrong way round
CacheHitInverted(rebuild_cache, loaded) == rebuild_cache /\ loaded.exists

\* embed_corpus, lines 135-138: the cached pair is returned
CacheHit(rebuild_cache, loaded) == ~rebuild_cache /\ loaded.exists

\* lines 140-143 without the fall-back to the id
TextsLemmaOnly(rows) ==
    [k \in 1..Len(rows) |-> _safe_text(lemma(rows[k]))]

\* embed_corpus, lines 140-143: one text per row
Texts(rows) ==
    [k \in 1..Len(rows) |->
        LET t == _safe_text(lemma(rows[k]))
        IN  IF t # <<>> THEN t ELSE lexeme_id(rows[k])]

\* embed_corpus, lines 145-154: embedder.embed(texts)
Embed(backend, model, c, texts) ==
    [k \in 1..Len(texts) |-> Vec(Embedder(backend, model, c), texts[k])]

\* build_or_load_index: the saved index is loaded when it exists
LoadsIndex(rebuild_index, f) == ~rebuild_index /\ f.exists

\* the source loop of main is entered for source spec number k (lines 580-585)
EnterSource(k) ==
    /\ pc' = "sources"
    /\ si' = k /\ sm' = 1
    /\ source_rows' = load_lexemes(cfg.sources[k], cfg.limit)
    /\ svecs' = EmptyByModel
    /\ srows' = EmptyByModel
    /\ UNCHANGED <<i, hm, ht, hk, results, candidates>>

\* main returns 0 (line 722)
Finish ==
    /\ pc' = "idle"
    /\ exc' = "none"
    /\ LoopsCleared
    /\ cfg' = cfg

\* lines 604-605 with the candidate map created once, before the loop
EnterRowKeepingCandidates(k) ==
    IF k < Len(source_rows)
    THEN /\ pc' = "search"
         /\ i' = k /\ hm' = 1 /\ ht' = 1 /\ hk' = 1
         /\ candidates' = candidates
         /\ results' = <<>>
         /\ UNCHANGED <<si, sm, source_rows, svecs, srows, cfg, exc, pend, ret,
                        target_indexes, tm, ts>>
    ELSE IF si < Len(cfg.sources)
    THEN /\ EnterSource(si + 1)
         /\ UNCHANGED <<cfg, exc, pend, ret, target_indexes, tm, ts>>
    ELSE Finish

\* enumerate(source_rows) moves to position k (lines 604-605)
EnterRow(k) ==
    IF k < Len(source_rows)
    THEN /\ pc' = "search"
         /\ i' = k /\ hm' = 1 /\ ht' = 1 /\ hk' = 1
         /\ candidates' = <<>>
         /\ results' = <<>>
         /\ UNCHANGED <<si, sm, source_rows, svecs, srows, cfg, exc, pend, ret,
                        target_indexes, tm, ts>>
    ELSE IF si < Len(cfg.sources)
    THEN /\ EnterSource(si + 1)
         /\ UNCHANGED <<cfg, exc, pend, ret, target_indexes, tm, ts>>
    ELSE Finish

\* main, lines 576-578 with build_or_load_index, then the next loop position
ContinueTarget(vecs, rows) ==
    LET model == cfg.models[tm]
        spec == cfg.targets[ts]
        key == cache_paths(CacheModel(cfg.backend, model), spec)
        load == LoadsIndex(cfg.rebuild_index, indexFile[key])
        index == IF load THEN indexFile[key].data ELSE build_flat_ip(vecs)
    IN  /\ indexFile' = IF load THEN indexFile
                        ELSE [indexFile EXCEPT ![key] = File(index)]
        /\ target_indexes' =
             [target_indexes EXCEPT
                ![model] = Append(@, [spec |-> spec, index |-> index, rows |-> rows])]
        /\ IF ts < Len(cfg.targets)
           THEN /\ ts' = ts + 1
                /\ UNCHANGED <<pc, tm, si, sm, source_rows, svecs, srows, out,
                               i, hm, ht, hk, results, candidates>>
           ELSE IF tm < Len(cfg.models)
           THEN /\ tm' = tm + 1 /\ ts' = 1
                /\ UNCHANGED <<pc, si, sm, source_rows, svecs, srows, out,
                               i, hm, ht, hk, results, candidates>>
           ELSE /\ EnterSource(1)
                /\ out' = <<>>
                /\ UNCHANGED <<tm, ts>>

\* main, lines 598-604: keep the source vectors, then the next loop position
ContinueSource(vecs, rows) ==
    LET model == cfg.models[sm]
    IN  IF sm < Len(cfg.models)
        THEN /\ svecs' = [svecs EXCEPT ![model] = vecs]
             /\ srows' = [srows EXCEPT ![model] = rows]
             /\ sm' = sm + 1
             /\ UNCHANGED <<pc, tm, ts, si, source_rows, target_indexes, out,
                            i, hm, ht, hk, results, candidates, indexFile>>
        ELSE /\ svecs' = [svecs EXCEPT ![model] = vecs]
             /\ srows' = [srows EXCEPT ![model] = rows]
             /\ pc' = "search"
             /\ i' = 0 /\ hm' = 1 /\ ht' = 1 /\ hk' = 1
             /\ candidates' = <<>>
             /\ results' = <<>>
             /\ UNCHANGED <<tm, ts, si, sm, source_rows, target_indexes, out,
                            indexFile>>

Continue(vecs, rows) ==
    IF pc = "targets" THEN ContinueTarget(vecs, rows) ELSE ContinueSource(vecs, rows)

\* embed_corpus returns the cached pair (lines 135-138)
EmbedCorpusHit ==
    /\ pc \in {"targets", "sources"}
    /\ ~pend.exists
    /\ LET loaded == maybe_load_vectors(cacheVec[CurKey], cacheRows[CurKey])
       IN  /\ CacheHit(cfg.rebuild_cache, loaded)
           /\ ret' = [exists |-> TRUE, key |-> CurKey, spec |-> CurSpec,
                      vecs |-> loaded.vecs, rows |-> loaded.rows]
           /\ Continue(loaded.vecs, loaded.rows)
    /\ UNCHANGED <<cacheVec, cacheRows, cfg, pend, embeds, exc, runs, kills>>
    /\ UNCHANGED <<run_id, prev>>
    /\ UNCHANGED <<concVars, scoreVars>>

\* embed_corpus computes the vectors and save_vectors writes vectors.npy
\* (lines 140-154, 115-116)
EmbedCorpusMiss ==
    /\ pc \in {"targets", "sources"}
    /\ ~pend.exists
    /\ ~CacheHit(cfg.rebuild_cache,
                 maybe_load_vectors(cacheVec[CurKey], cacheRows[CurKey]))
    /\ LET vecs == Embed(cfg.backend, CurModel, cfg, Texts(CurRows))
       IN  /\ cacheVec' = [cacheVec EXCEPT ![CurKey] = File(vecs)]
           /\ pend' = [exists |-> TRUE, key |-> CurKey, spec |-> CurSpec,
                       vecs |-> vecs, rows |-> CurRows]
    /\ embeds' = embeds + 1
    /\ UNCHANGED <<cacheRows, indexFile, pc, cfg, tm, ts, target_indexes, si, sm,
                   source_rows, svecs, srows, i, hm, ht, hk, results, candidates,
                   out, ret, exc, runs, kills>>
    /\ UNCHANGED <<run_id, prev>>
    /\ UNCHANGED <<concVars, scoreVars>>

\* save_vectors writes rows.jsonl (line 117) and embed_corpus returns (line 159)
SaveRows ==
    /\ pc \in {"targets", "sources"}
    /\ pend.exists
    /\ cacheRows' = [cacheRows EXCEPT ![pend.key] = File(RowLines(pend.rows))]
    /\ ret' = pend
    /\ pend' = NoFile
    /\ Continue(pend.vecs, pend.rows)
    /\ UNCHANGED <<cacheVec, cfg, embeds, exc, runs, kills>>
    /\ UNCHANGED <<run_id, prev>>
    /\ UNCHANGED <<concVars, scoreVars>>

\* the process dies inside save_vectors, between np.save and write_jsonl
CrashInSave ==
    /\ pend.exists
    /\ kills' = kills + 1
    /\ pc' = "idle"
    /\ exc' = "killed"
    /\ LocalsCleared
    /\ UNCHANGED <<cacheVec, cacheRows, indexFile, out, embeds, runs>>
    /\ UNCHANGED <<run_id, prev>>
    /\ UNCHANGED <<concVars, scoreVars>>

----------------------------------------------------------------------------
(* main: retrieval for one source row (lines 604-670) *)

\* the run ends with an uncaught IndexError
RaiseIndexError ==
    /\ pc' = "idle"
    /\ exc' = "IndexError"
    /\ LocalsCleared

\* the (spec, index, rows) triple the inner loop is at
CurTarget == target_indexes[cfg.models[hm]][ht]

\* source_vectors_by_model[model][i : i + 1]
SrcVec == LET vs == svecs[cfg.models[hm]]
          IN  IF i + 1 <= Len(vs) THEN <<vs[i + 1]>> ELSE <<>>

\* search_index(tgt_index, src_vec, topk): the zipped first result row
search_index(index, q, topk) == IndexSearch(index, q, topk)

\* line 610: the search of one target index
Search ==
    /\ pc = "search"
    /\ SrcVec # <<>>
    /\ results' = search_index(CurTarget.index, SrcVec[1], cfg.topk)
    /\ pc' = "hits"
    /\ hk' = 1
    /\ UNCHANGED <<cacheVec, cacheRows, indexFile, cfg, tm, ts, target_indexes,
                   si, sm, source_rows, svecs, srows, i, hm, ht, candidates,
                   out, pend, ret, embeds, exc, runs, kills>>
    /\ UNCHANGED <<run_id, prev>>
    /\ UNCHANGED <<concVars, scoreVars>>

\* lines 610-611: an empty query slice gives no result row, scores[0] raises
SearchNoQuery ==
    /\ pc = "search"
    /\ SrcVec = <<>>
    /\ RaiseIndexError
    /\ UNCHANGED <<cacheVec, cacheRows, indexFile, out, embeds, runs, kills>>
    /\ UNCHANGED <<run_id, prev>>
    /\ UNCHANGED <<concVars, scoreVars>>

\* the loops over hits, target indexes and models move on (lines 607-611)
NextHit ==
    IF hk < Len(results)
    THEN /\ hk' = hk + 1
         /\ UNCHANGED <<pc, hm, ht>>
    ELSE IF ht < Len(target_indexes[cfg.models[hm]])
    THEN /\ pc' = "search" /\ ht' = ht + 1 /\ hk' = 1
         /\ UNCHANGED hm
    ELSE IF hm < Len(cfg.models)
    THEN /\ pc' = "search" /\ hm' = hm + 1 /\ ht' = 1 /\ hk' = 1
    ELSE /\ pc' = "classify"
         /\ UNCHANGED <<hm, ht, hk>>

\* line 612 without the test for padded slots
ValidHitAny(h) == TRUE

\* line 612: a hit the loop body handles
ValidHit(h) == h.idx >= 0

\* lines 612-613: a padded slot is skipped
SkipSentinel ==
    /\ pc = "hits"
    /\ ~ValidHit(results[hk])
    /\ NextHit
    /\ UNCHANGED <<cacheVec, cacheRows, indexFile, cfg, tm, ts, target_indexes,
                   si, sm, source_rows, svecs, srows, i, results, candidates,
                   out, pend, ret, embeds, exc, runs, kills>>
    /\ UNCHANGED <<run_id, prev>>
    /\ UNCHANGED <<concVars, scoreVars>>

\* line 614: tgt_rows[idx] of a valid hit (a negative idx counts from the end)
InRange(rows, idx) == -Len(rows) <= idx /\ idx < Len(rows)
RowAt(rows, idx) == IF idx >= 0 THEN rows[idx + 1] ELSE rows[Len(rows) + idx + 1]

\* line 614: the index holds more vectors than there are rows
HitOutOfRange ==
    /\ pc = "hits"
    /\ ValidHit(results[hk])
    /\ ~InRange(CurTarget.rows, results[hk].idx)
    /\ RaiseIndexError
    /\ UNCHANGED <<cacheVec, cacheRows, indexFile, out, embeds, runs, kills>>
    /\ UNCHANGED <<run_id, prev>>
    /\ UNCHANGED <<concVars, scoreVars>>

\* line 615: the candidate key
LeadKey(tgt_spec, tgt_row) ==
    tgt_spec.lang \o <<"|">> \o tgt_spec.stage \o <<"|">> \o lexeme_id(tgt_row)
        \o <<"|">> \o IntStr(tgt_row.row_idx)

\* lines 622-643: the "source" / "target" block of a new entry
Side(row, spec) ==
    [id |-> lexeme_id(row), row_idx |-> row.row_idx, lemma |-> lemma(row),
     lang |-> spec.lang, stage |-> spec.stage,
     translit |-> Get(row.data, "translit"),
     ipa |-> Or(Get(row.data, "ipa"), Get(row.data, "ipa_raw"))]

\* lines 646-665: the "_source_fields" / "_target_fields" block
Fields(row) ==
    [lemma |-> Get(row.data, "lemma"), translit |-> Get(row.data, "translit"),
     ipa |-> Get(row.data, "ipa"), ipa_raw |-> Get(row.data, "ipa_raw")]

\* lines 617-667: the entry created for a key seen for the first time
NewEntry(key, src_row, src_spec, tgt_row, tgt_spec) ==
    [key |-> key,
     run_id |-> run_id,
     source |-> Side(src_row, src_spec),
     target |-> Side(tgt_row, tgt_spec),
     scores |-> <<>>,
     retrieved_by |-> <<>>,
     _source_fields |-> Fields(src_row),
     _target_fields |-> Fields(tgt_row)]

\* candidates.get(key): position of the entry, 0 when there is none
Find(cands, key) ==
    IF \E p \in 1..Len(cands) : cands[p].key = key
    THEN CHOOSE p \in 1..Len(cands) : cands[p].key = key
    ELSE 0

InSeq(x, seq) == \E p \in 1..Len(seq) : seq[p] = x

\* lines 669-670 without line 668: the model is appended, no score is set
ScoredWithoutScore(entry, model, score) ==
    [entry EXCEPT !.retrieved_by = IF InSeq(model, @) THEN @ ELSE Append(@, model)]

\* lines 668-670: the score is set, the model is appended once
Scored(entry, model, score) ==
    [entry EXCEPT
        !.scores = (model :> score) @@ @,
        !.retrieved_by = IF InSeq(model, @) THEN @ ELSE Append(@, model)]

\* lines 616-670 without the `entry is None` test: every hit stores a new entry
ApplyHitOverwrite(cands, model, hit, src_row, src_spec, tgt_row, tgt_spec) ==
    LET key == LeadKey(tgt_spec, tgt_row)
        p == Find(cands, key)
        fresh == Scored(NewEntry(key, src_row, src_spec, tgt_row, tgt_spec),
                        model, hit.score)
    IN  IF p = 0 THEN Append(cands, fresh) ELSE [cands EXCEPT ![p] = fresh]

\* lines 616-670: the candidates dict after one valid hit
ApplyHit(cands, model, hit, src_row, src_spec, tgt_row, tgt_spec) ==
    LET key == LeadKey(tgt_spec, tgt_row)
        p == Find(cands, key)
    IN  IF p = 0
        THEN Append(cands, Scored(NewEntry(key, src_row, src_spec, tgt_row, tgt_spec),
                                  model, hit.score))
        ELSE [cands EXCEPT ![p] = Scored(@, model, hit.score)]

\* lines 614-670: a valid hit creates or updates its lead
HitLead ==
    /\ pc = "hits"
    /\ ValidHit(results[hk])
    /\ InRange(CurTarget.rows, results[hk].idx)
    /\ candidates' = ApplyHit(candidates, cfg.models[hm], results[hk],
                              source_rows[i + 1], cfg.sources[si],
                              RowAt(CurTarget.rows, results[hk].idx), CurTarget.spec)
    /\ NextHit
    /\ UNCHANGED <<cacheVec, cacheRows, indexFile, cfg, tm, ts, target_indexes,
                   si, sm, source_rows, svecs, srows, i, results, out, pend, ret,
                   embeds, exc, runs, kills>>
    /\ UNCHANGED <<run_id, prev>>
    /\ UNCHANGED <<concVars, scoreVars>>

----------------------------------------------------------------------------
(* main: category, ranking and output for one source row (lines 672-719) *)

\* lines 674-683 with `or` in place of `and` in the first test
CategoryLoose(entry) ==
    LET got_semantic == "semantic" \in DOMAIN entry.scores
        got_form == "form" \in DOMAIN entry.scores
    IN  IF got_semantic \/ got_form THEN "strong_union"
        ELSE IF got_semantic THEN "semantic_only"
        ELSE IF got_form THEN "form_only"
        ELSE "unclassified"

\* lines 674-683
Category(entry) ==
    LET got_semantic == "semantic" \in DOMAIN entry.scores
        got_form == "form" \in DOMAIN entry.scores
    IN  IF got_semantic /\ got_form THEN "strong_union"
        ELSE IF got_semantic THEN "semantic_only"
        ELSE IF got_form THEN "form_only"
        ELSE "unclassified"

\* entry["scores"].get(model) as the float handed to compute_hybrid; the
\* retrieval scores are held in hundredths
ScoreOf(entry, model) ==
    IF model \in DOMAIN entry.scores THEN Rat(entry.scores[model], 100) ELSE None

\* lines 685-692: the "hybrid" block of an entry
Hybrid(entry) ==
    compute_hybrid(entry._source_fields, entry._target_fields,
                   ScoreOf(entry, "semantic"), ScoreOf(entry, "form"), cfg.weights)

\* lines 673-702: category, the hybrid block unless --no-hybrid, provenance
Classified(entry) ==
    LET e == [key |-> entry.key, run_id |-> entry.run_id,
              source |-> entry.source, target |-> entry.target,
              scores |-> entry.scores, retrieved_by |-> entry.retrieved_by,
              _source_fields |-> entry._source_fields,
              _target_fields |-> entry._target_fields,
              category |-> Category(entry),
              provenance |-> [models |-> cfg.models, topk_per_target |-> cfg.topk,
                              max_out_per_source |-> cfg.max_out]]
    IN  IF cfg.no_hybrid THEN e ELSE e @@ [hybrid |-> Hybrid(entry)]

\* -1e9
SentinelMin == -1000000000

\* a score in ten-thousandths, the precision of combined_score
TenThousandths(x) == x[1] * (10000 \div x[2])

\* lines 704-713 with the strong_union element left out of the key
sort_key_no_category(e) ==
    << IF "hybrid" \in DOMAIN e THEN TenThousandths(e.hybrid.combined_score)
       ELSE SentinelMin,
       1,
       IF "semantic" \in DOMAIN e.scores THEN e.scores["semantic"] ELSE SentinelMin,
       IF "form" \in DOMAIN e.scores THEN e.scores["form"] ELSE SentinelMin >>

\* lines 704-713; combined_score counts in ten-thousandths, the retrieval
\* scores in hundredths, and -1e9 lies below both
sort_key(e) ==
    << IF "hybrid" \in DOMAIN e THEN TenThousandths(e.hybrid.combined_score)
       ELSE SentinelMin,
       IF e.category = "strong_union" THEN 2 ELSE 1,
       IF "semantic" \in DOMAIN e.scores THEN e.scores["semantic"] ELSE SentinelMin,
       IF "form" \in DOMAIN e.scores THEN e.scores["form"] ELSE SentinelMin >>

\* tuple comparison a > b
RECURSIVE TupleGreater(_, _)
TupleGreater(a, b) ==
    IF a = <<>> \/ b = <<>> THEN Len(a) > Len(b)
    ELSE IF Head(a) # Head(b) THEN Head(a) > Head(b)
    ELSE TupleGreater(Tail(a), Tail(b))

\* sorted(seq, key=sort_key, reverse=True): stable, equal keys keep their order
RECURSIVE SortedDesc(_)
SortedDesc(seq) ==
    IF seq = <<>> THEN <<>>
    ELSE LET rest == SortedDesc(SubSeq(seq, 1, Len(seq) - 1))
             x == seq[Len(seq)]
             \* x goes after every element whose key is not smaller
             n == Cardinality({p \in 1..Len(rest) :
                                 ~TupleGreater(sort_key(x), sort_key(rest[p]))})
         IN  SubSeq(rest, 1, n) \o <<x>> \o SubSeq(rest, n + 1, Len(rest))

\* lines 717-719: the record written for a ranked entry
Written(e) ==
    LET row == [key |-> e.key, run_id |-> e.run_id, source |-> e.source,
                target |-> e.target, scores |-> e.scores,
                retrieved_by |-> e.retrieved_by, category |-> e.category,
                provenance |-> e.provenance]
    IN  IF "hybrid" \in DOMAIN e THEN row @@ [hybrid |-> e.hybrid] ELSE row

\* line 715 with the slice taken before the sort
RankedTruncatedFirst(cands, max_out) ==
    SortedDesc(SubSeq(cands, 1, Min(max_out, Len(cands))))

\* line 715: sorted(...)[:max_out]
Ranked(cands, max_out) ==
    LET sorted == SortedDesc(cands)
    IN  SubSeq(sorted, 1, Min(max_out, Len(sorted)))

\* lines 672-702: every candidate gets its category, hybrid block and provenance
Classify ==
    /\ pc = "classify"
    /\ pc' = "rank"
    /\ candidates' = [p \in 1..Len(candidates) |-> Classified(candidates[p])]
    /\ UNCHANGED <<cacheVec, cacheRows, indexFile, cfg, tm, ts, target_indexes,
                   si, sm, source_rows, svecs, srows, i, hm, ht, hk, results,
                   out, pend, ret, embeds, exc, runs, kills>>
    /\ UNCHANGED <<run_id, prev>>
    /\ UNCHANGED <<concVars, scoreVars>>

\* lines 704-719, then the next source row, the next source spec, or the end
Rank ==
    /\ pc = "rank"
    /\ LET ranked == Ranked(candidates, cfg.max_out)
       IN  out' = out \o [p \in 1..Len(ranked) |-> Written(ranked[p])]
    /\ EnterRow(i + 1)
    /\ UNCHANGED <<cacheVec, cacheRows, indexFile, embeds, runs, kills>>
    /\ UNCHANGED <<run_id, prev>>
    /\ UNCHANGED <<concVars, scoreVars>>

----------------------------------------------------------------------------

Next ==
    \/ StartRun
    \/ EmbedCorpusHit
    \/ EmbedCorpusMiss
    \/ SaveRows
    \/ CrashInSave
    \/ Search
    \/ SearchNoQuery
    \/ SkipSentinel
    \/ HitOutOfRange
    \/ HitLead
    \/ Classify
    \/ Rank

Spec == Init /\ [][Next]_vars

\* the same program, run with the heuristic scoring
NextHybrid ==
    \/ StartHybridRun
    \/ EmbedCorpusHit
    \/ EmbedCorpusMiss
    \/ SaveRows
    \/ CrashInSave
    \/ Search
    \/ SearchNoQuery
    \/ SkipSentinel
    \/ HitOutOfRange
    \/ HitLead
    \/ Classify
    \/ Rank

SpecHybrid == Init /\ [][NextHybrid]_vars

----------------------------------------------------------------------------
(* One producer and one reading worker on the cache of a key               *)
(* (embed_corpus / save_vectors against maybe_load_vectors), one file      *)
(* operation per step.                                                     *)

\* the keys the producer writes and the worker reads
ConcKeys == {cache_paths(CacheModel("local", "semantic"), s) : s \in {AraCla1, EngMod2}}

\* embed_corpus up to np.save (lines 133-154, 115-116): a call that misses
\* the cache, or is made with --rebuild-cache, writes vectors.npy
WriterNpSave ==
    /\ ~writer.exists
    /\ \E spec \in {AraCla1, EngMod2}, limit \in {0, 1}, rebuild_cache \in BOOLEAN :
        LET key == cache_paths(CacheModel("local", "semantic"), spec)
            rows == load_lexemes(spec, limit)
            vecs == Embed("local", "semantic", NoConfig, Texts(rows))
        IN  /\ ~CacheHit(rebuild_cache,
                         maybe_load_vectors(cacheVec[key], cacheRows[key]))
            /\ cacheVec' = [cacheVec EXCEPT ![key] = File(vecs)]
            /\ writer' = [exists |-> TRUE, key |-> key, vecs |-> vecs, rows |-> rows]
    /\ UNCHANGED <<cacheRows, indexFile, reader>>
    /\ UNCHANGED <<pipeVars, scoreVars>>

\* save_vectors, line 117: write_jsonl writes rows.jsonl
WriterWriteRows ==
    /\ writer.exists
    /\ cacheRows' = [cacheRows EXCEPT ![writer.key] = File(RowLines(writer.rows))]
    /\ writer' = NoFile
    /\ UNCHANGED <<cacheVec, indexFile, reader>>
    /\ UNCHANGED <<pipeVars, scoreVars>>

\* maybe_load_vectors, line 103: vectors_path.exists()
ReaderVectorsExist ==
    /\ reader.pc \in {"idle", "done"}
    /\ \E key \in ConcKeys :
        reader' = IF cacheVec[key].exists
                  THEN [pc |-> "rows_exist", key |-> key]
                  ELSE [pc |-> "done", key |-> key, hit |-> FALSE]
    /\ UNCHANGED <<cacheVec, cacheRows, indexFile, writer>>
    /\ UNCHANGED <<pipeVars, scoreVars>>

\* maybe_load_vectors, line 103: rows_path.exists()
ReaderRowsExist ==
    /\ reader.pc = "rows_exist"
    /\ reader' = IF cacheRows[reader.key].exists
                 THEN [pc |-> "np_load", key |-> reader.key]
                 ELSE [pc |-> "done", key |-> reader.key, hit |-> FALSE]
    /\ UNCHANGED <<cacheVec, cacheRows, indexFile, writer>>
    /\ UNCHANGED <<pipeVars, scoreVars>>

\* maybe_load_vectors, line 106: np.load(vectors_path)
ReaderNpLoad ==
    /\ reader.pc = "np_load"
    /\ reader' = [pc |-> "read_rows", key |-> reader.key,
                  vecs |-> cacheVec[reader.key].data]
    /\ UNCHANGED <<cacheVec, cacheRows, indexFile, writer>>
    /\ UNCHANGED <<pipeVars, scoreVars>>

\* maybe_load_vectors, lines 107-108: read_jsonl_rows(rows_path), return
ReaderReadRows ==
    /\ reader.pc = "read_rows"
    /\ reader' = [pc |-> "done", key |-> reader.key, hit |-> TRUE,
                  vecs |-> reader.vecs,
                  rows |-> read_jsonl_rows(cacheRows[reader.key].data, 0)]
    /\ UNCHANGED <<cacheVec, cacheRows, indexFile, writer>>
    /\ UNCHANGED <<pipeVars, scoreVars>>

NextConc ==
    \/ WriterNpSave
    \/ WriterWriteRows
    \/ ReaderVectorsExist
    \/ ReaderRowsExist
    \/ ReaderNpLoad
    \/ ReaderReadRows

SpecConc == Init /\ [][NextConc]_vars

----------------------------------------------------------------------------
(* The scoring functions of hybrid_scoring.py called on their own: the     *)
(* arguments are drawn at the start, one step applies the function.        *)

\* the texts of at most n characters over the letters
RECURSIVE TextsUpTo(_, _)
TextsUpTo(letters, n) ==
    IF n = 0 THEN {<<>>}
    ELSE LET shorter == TextsUpTo(letters, n - 1)
         IN  shorter \cup {<<c>> \o t : c \in letters,
                                        t \in {u \in shorter : Len(u) = n - 1}}

\* values of a lemma field: every consonant string up to MaxLen, and forms
\* with vowels, capitals, punctuation, blanks and Arabic letters
LemmaTexts ==
    TextsUpTo({"k", "t", "b"}, MaxLen)
        \cup { <<"w", "r", "i", "t", "e">>, <<"K", "a", "t">>, <<"k", "a">>,
               <<"a">>, <<"-">>, <<" ">>, <<"k", "-", "t">>,
               <<"U+0643", "U+062A", "U+0628">>, <<"U+0643", "U+0627">> }

\* lexemes for orthography_score and skeleton_score
Lexemes ==
    {[lemma |-> t] : t \in LemmaTexts}
        \cup { [lemma |-> <<"U+0643", "U+062A", "U+0628">>, translit |-> <<"k", "t", "b">>],
               [lemma |-> <<"k", "a", "t">>, ipa |-> <<"k", "U+00E6", "t">>],
               [lemma |-> None, translit |-> <<>>] }

\* values of the ipa and ipa_raw fields
IpaTexts == {None, <<>>, <<"-">>, <<"k", "a", "t">>, <<"t", "a", "k">>}

\* lexemes for sound_score
IpaLexemes == {[ipa |-> x, ipa_raw |-> y] : x \in IpaTexts, y \in IpaTexts}

\* component values handed to combined_score
ComponentValues == {None, Zero, Rat(1, 2), One}

\* HybridWeights(semantic=1, form=1, orthography=0, sound=0, skeleton=0)
PairWeights == HybridWeights(One, One, Zero, Zero, Zero, Rat(5, 100))
\* HybridWeights(family_boost=0.0)
NoBoostWeights ==
    HybridWeights(Rat(40, 100), Rat(20, 100), Rat(15, 100), Rat(15, 100),
                  Rat(10, 100), Zero)
\* HybridWeights(semantic=-1, form=0.5, orthography=0, sound=0, skeleton=0)
NegativeWeights == HybridWeights(Rat(-1, 1), Rat(1, 2), Zero, Zero, Zero, Rat(5, 100))

\* values of the lang field: none, empty, known codes, a code in capitals
\* with blanks around it, an unknown code
LangCodes ==
    {None, <<>>, <<"a", "r">>, <<" ", "A", "R", " ">>, <<"h", "e">>, <<"e", "n">>,
     <<"x", "x">>}

\* lexemes for compute_hybrid
LangLexemes ==
    {[lemma |-> <<"k", "a", "t">>, lang |-> c] : c \in LangCodes}
        \cup { [lemma |-> <<"k", "a", "t">>, language |-> <<"h", "e", "b">>],
               [lemma |-> <<"k", "a", "t">>],
               [lemma |-> <<"k", "i", "t">>, lang |-> <<"a", "r">>,
                ipa |-> <<"k", "i", "t">>] }

\* lexemes with a raw transcription beside the other fields
RawIpaLexemes ==
    { [lemma |-> <<"k", "a", "t">>, translit |-> <<"b", "a", "b">>,
       ipa |-> <<>>, ipa_raw |-> <<"t", "a", "k">>],
      [lemma |-> <<"k", "a", "t">>, translit |-> None,
       ipa |-> None, ipa_raw |-> <<"t", "U+0259", "k", "1">>],
      [lemma |-> <<"U+0643", "U+0627", "U+062A">>, translit |-> <<"k", "a", "t">>,
       ipa |-> <<"k", "U+00E6", "t">>, ipa_raw |-> <<"b", "a", "b">>],
      [lemma |-> <<"k", "a", "t">>, translit |-> <<"-">>] }

\* the calls
Calls ==
    {[fn |-> "skeleton_score", source |-> a, target |-> b] :
        a \in RawIpaLexemes, b \in RawIpaLexemes}
        \cup
    {[fn |-> "orthography_score", source |-> a, target |-> b] : a \in Lexemes, b \in Lexemes}
        \cup
    {[fn |-> "skeleton_score", source |-> a, target |-> b] : a \in Lexemes, b \in Lexemes}
        \cup
    {[fn |-> "sound_score", source |-> a, target |-> b] : a \in IpaLexemes, b \in IpaLexemes}
        \cup
    [fn : {"combined_score"}, semantic_score : ComponentValues,
     form_score : ComponentValues, orthography : ComponentValues,
     sound : ComponentValues, skeleton : ComponentValues,
     weights : {DefaultWeights, PairWeights, ZeroWeights, NegativeWeights}]
        \cup
    [fn : {"compute_hybrid"}, source : LangLexemes, target : LangLexemes,
     semantic : {None, Rat(1, 2), One}, form : {None, Rat(1, 2)},
     weights : {DefaultWeights, PairWeights, NoBoostWeights}]

InitScore ==
    /\ cacheVec = [k \in CacheKeys |-> NoFile]
    /\ cacheRows = [k \in CacheKeys |-> NoFile]
    /\ indexFile = [k \in CacheKeys |-> NoFile]
    /\ pc = "idle"
    /\ cfg = NoConfig
    /\ tm = 1 /\ ts = 1 /\ si = 1 /\ sm = 1
    /\ i = 0 /\ hm = 1 /\ ht = 1 /\ hk = 1
    /\ target_indexes = EmptyByModel
    /\ source_rows = <<>>
    /\ svecs = EmptyByModel
    /\ srows = EmptyByModel
    /\ results = <<>>
    /\ candidates = <<>>
    /\ out = <<>>
    /\ pend = NoFile
    /\ ret = NoFile
    /\ embeds = 0
    /\ exc = "none"
    /\ runs = 0
    /\ kills = 0
    /\ run_id = 0
    /\ prev = NoPrev
    /\ call \in Calls
    /\ result = NoResult
    /\ writer = NoFile
    /\ reader = [pc |-> "idle"]

\* the function returns value
Return(value) ==
    /\ ~result.done
    /\ result' = [done |-> TRUE, value |-> value]
    /\ UNCHANGED <<call, cacheVec, cacheRows, indexFile, pipeVars, concVars>>

CallOrthographyScore ==
    /\ call.fn = "orthography_score"
    /\ Return(orthography_score(call.source, call.target))

CallSkeletonScore ==
    /\ call.fn = "skeleton_score"
    /\ Return(skeleton_score(call.source, call.target))

CallSoundScore ==
    /\ call.fn = "sound_score"
    /\ Return(sound_score(call.source, call.target))

CallCombinedScore ==
    /\ call.fn = "combined_score"
    /\ Return(combined_score(call.semantic_score, call.form_score, call.orthography,
                             call.sound, call.skeleton, call.weights))

CallComputeHybrid ==
    /\ call.fn = "compute_hybrid"
    /\ Return(compute_hybrid(call.source, call.target, call.semantic, call.form,
                             call.weights))

NextScore ==
    \/ CallOrthographyScore
    \/ CallSkeletonScore
    \/ CallSoundScore
    \/ CallCombinedScore
    \/ CallComputeHybrid

SpecScore == InitScore /\ [][NextScore]_vars

----------------------------------------------------------------------------
(* GeminiEmbedder.embed (embeddings.py), one embed_content request per     *)
(* step; the request succeeds or the API raises a transient error.         *)

\* nothing else of the program is running
Quiet ==
    /\ cacheVec = [k \in CacheKeys |-> NoFile]
    /\ cacheRows = [k \in CacheKeys |-> NoFile]
    /\ indexFile = [k \in CacheKeys |-> NoFile]
    /\ pc = "idle"
    /\ cfg = NoConfig
    /\ tm = 1 /\ ts = 1 /\ si = 1 /\ sm = 1
    /\ i = 0 /\ hm = 1 /\ ht = 1 /\ hk = 1
    /\ target_indexes = EmptyByModel
    /\ source_rows = <<>>
    /\ svecs = EmptyByModel
    /\ srows = EmptyByModel
    /\ results = <<>>
    /\ candidates = <<>>
    /\ out = <<>>
    /\ pend = NoFile
    /\ ret = NoFile
    /\ embeds = 0
    /\ exc = "none"
    /\ runs = 0
    /\ kills = 0
    /\ run_id = 0
    /\ prev = NoPrev
    /\ writer = NoFile
    /\ reader = [pc |-> "idle"]

\* the texts handed to embed: at most MaxTexts of them
EmbedTexts == {<<"k", "t", "b">>, <<"d", "m">>}
TextLists == UNION {[1..n -> EmbedTexts] : n \in 0..MaxTexts}

\* embedder.embed(texts) for GeminiConfig(batch_size = 1 or 2)
GeminiCalls ==
    [fn : {"GeminiEmbedder.embed"}, texts : TextLists, batch_size : {1, 2},
     e : {Embedder("api", "semantic", NoConfig)}]

\* the locals of embed before the loop: i, all_vecs; requests lists the
\* offset of the batch of every embed_content request sent so far
GeminiFrame ==
    [done |-> FALSE, i |-> 0, all_vecs |-> <<>>, requests |-> <<>>, raised |-> "none"]

\* transient failures of a request
TransientErrors == {"rate limit", "network"}

\* lines 233-244: embed_content answers, the vectors are appended
EmbedContentOk ==
    /\ call.fn = "GeminiEmbedder.embed"
    /\ ~result.done
    /\ result.i < Len(call.texts)
    /\ LET batch == SubSeq(call.texts, result.i + 1,
                           Min(result.i + call.batch_size, Len(call.texts)))
       IN  result' = [result EXCEPT
                        !.i = @ + call.batch_size,
                        !.all_vecs = @ \o [k \in 1..Len(batch) |-> Vec(call.e, batch[k])],
                        !.requests = Append(@, result.i)]
    /\ UNCHANGED <<call, cacheVec, cacheRows, indexFile, pipeVars, concVars>>

\* lines 235-242: embed_content raises; nothing in embed catches it
EmbedContentRaises ==
    /\ call.fn = "GeminiEmbedder.embed"
    /\ ~result.done
    /\ result.i < Len(call.texts)
    /\ \E err \in TransientErrors :
          result' = [result EXCEPT
                       !.done = TRUE,
                       !.raised = err,
                       !.requests = Append(@, result.i)]
    /\ UNCHANGED <<call, cacheVec, cacheRows, indexFile, pipeVars, concVars>>

\* lines 246-247: the loop is over, the vectors are returned
EmbedReturns ==
    /\ call.fn = "GeminiEmbedder.embed"
    /\ ~result.done
    /\ result.i >= Len(call.texts)
    /\ result' = [result EXCEPT !.done = TRUE]
    /\ UNCHANGED <<call, cacheVec, cacheRows, indexFile, pipeVars, concVars>>

InitGemini ==
    /\ Quiet
    /\ call \in GeminiCalls
    /\ result = GeminiFrame

NextGemini ==
    \/ EmbedContentOk
    \/ EmbedContentRaises
    \/ EmbedReturns

SpecGemini == InitGemini /\ [][NextGemini]_vars

----------------------------------------------------------------------------
(* Properties *)

\* the embedding of one row under the model of the current run
RowVec(model, row) == Embed(cfg.backend, model, cfg, Texts(<<row>>))[1]

\* vectors and rows that one save_vectors call wrote together
PairFromOneSave(vecs, rows) ==
    /\ Len(vecs) = Len(rows)
    /\ \A k \in 1..Len(vecs) : k <= Len(rows) => vecs[k].t = Texts(rows)[k]

\* C1: in every run the query vector of source row i is the embedding of
\* source row i, and every valid hit idx resolves to the target row whose
\* embedding is at position idx of the searched index.
AlignedQueriesAndHits ==
    /\ pc \in {"search", "hits"} =>
          /\ SrcVec # <<>>
          /\ SrcVec[1] = RowVec(cfg.models[hm], source_rows[i + 1])
    /\ (pc = "hits" /\ results[hk].idx >= 0) =>
          /\ results[hk].idx < Len(CurTarget.rows)
          /\ CurTarget.index[results[hk].idx + 1] =
                RowVec(cfg.models[hm], CurTarget.rows[results[hk].idx + 1])

\* C2: embed_corpus never returns vectors and rows of different counts.
ReturnedCountsAgree ==
    ret.exists => Len(ret.vecs) = Len(ret.rows)

\* C3: without --rebuild-cache, a call of embed_corpus for a key whose
\* vectors and rows are on disk returns that pair, leaves the files as they
\* are and does not invoke the embedding model.
CacheReusedWithoutRebuild ==
    [][(/\ pc \in {"targets", "sources"}
        /\ ~pend.exists
        /\ ~cfg.rebuild_cache
        /\ cacheVec[CurKey].exists
        /\ cacheRows[CurKey].exists)
       => (/\ embeds' = embeds
           /\ cacheVec' = cacheVec
           /\ cacheRows' = cacheRows
           /\ ret'.exists
           /\ ret'.key = CurKey
           /\ ret'.vecs = cacheVec[CurKey].data
           /\ ret'.rows = read_jsonl_rows(cacheRows[CurKey].data, 0))]_vars

\* a second run in which every embed_corpus call so far was served from disk
CacheReusedWitness ==
    /\ runs = 2
    /\ pc = "search"
    /\ ~cfg.rebuild_cache
    /\ embeds = 0
    /\ ret.exists
    /\ ret.vecs = cacheVec[ret.key].data

\* C4: the index kept for a target corpus is built from the vectors that
\* embed_corpus returned for that corpus in the same run.
IndexBuiltFromReturnedVectors ==
    [][(pc = "targets" /\ pc' # "idle" /\ target_indexes' # target_indexes)
       => LET m == cfg.models[tm]
              e == target_indexes'[m][Len(target_indexes'[m])]
          IN  e.index = build_flat_ip(ret'.vecs)]_vars

\* the texts embed_corpus builds for the whole corpus file of a spec
FileTexts(spec) == Texts(load_lexemes(spec, 0))

\* C5: the cache is partitioned by the full corpus spec: the vectors returned
\* for a spec, and the index kept for it, come from the file at its own path.
CachePartitionedByPath ==
    /\ ret.exists =>
          \A k \in 1..Len(ret.vecs) :
              /\ k <= Len(FileTexts(ret.spec))
              /\ ret.vecs[k].t = FileTexts(ret.spec)[k]
    /\ \A m \in Models : \A p \in 1..Len(target_indexes[m]) :
          LET e == target_indexes[m][p]
          IN  \A k \in 1..Len(e.index) :
                  /\ k <= Len(FileTexts(e.spec))
                  /\ e.index[k].t = FileTexts(e.spec)[k]

\* C6: after a crash inside save_vectors, a later run without rebuild never
\* loads vectors together with rows from a different save.
LoadedPairFromOneSave ==
    (ret.exists /\ kills > 0) => PairFromOneSave(ret.vecs, ret.rows)

\* C7: a worker reading a key through maybe_load_vectors while the producer
\* writes it never gets a partially written cache.
ReaderSeesWholeCache ==
    (reader.pc = "done" /\ reader.hit) => PairFromOneSave(reader.vecs, reader.rows)

NoDuplicates(seq) == \A p, q \in 1..Len(seq) : seq[p] = seq[q] => p = q

Elems(seq) == {seq[p] : p \in 1..Len(seq)}

\* C8: every lead written has a non-empty, duplicate-free retrieved_by made of
\* configured modalities and equal to the modalities that have a score, and
\* its category is strong_union iff semantic and form both retrieved it,
\* semantic_only / form_only iff exactly that one did.
WrittenLeadsWellFormed ==
    \A p \in 1..Len(out) :
        LET e == out[p]
            by == Elems(e.retrieved_by)
        IN  /\ Len(e.retrieved_by) >= 1
            /\ NoDuplicates(e.retrieved_by)
            /\ by \subseteq Elems(e.provenance.models)
            /\ by = DOMAIN e.scores
            /\ (e.category = "strong_union") <=> (by = {"semantic", "form"})
            /\ (e.category = "semantic_only") <=> (by = {"semantic"})
            /\ (e.category = "form_only") <=> (by = {"form"})

\* a run has written a lead of each of the three categories
WrittenLeadsWitness ==
    \A c \in {"strong_union", "semantic_only", "form_only"} :
        \E p \in 1..Len(out) : out[p].category = c

\* C9: a hit on a key that already has a lead leaves the captured source and
\* target fields as they are; it only sets the score of its modality and
\* appends the modality to retrieved_by when it is not there yet.
CapturedFieldsFrozen ==
    [][(pc = "hits" /\ pc' # "idle")
       => /\ Len(candidates') >= Len(candidates)
          /\ \A p \in 1..Len(candidates) :
                LET old == candidates[p]
                    new == candidates'[p]
                    model == cfg.models[hm]
                IN  /\ new.key = old.key
                    /\ new.source = old.source
                    /\ new.target = old.target
                    /\ new._source_fields = old._source_fields
                    /\ new._target_fields = old._target_fields
                    /\ \A m \in DOMAIN old.scores :
                          /\ m \in DOMAIN new.scores
                          /\ m # model => new.scores[m] = old.scores[m]
                    /\ DOMAIN new.scores \subseteq DOMAIN old.scores \cup {model}
                    /\ new.retrieved_by =
                          IF new = old \/ InSeq(model, old.retrieved_by)
                          THEN old.retrieved_by
                          ELSE Append(old.retrieved_by, model)]_vars

\* a lead created by one modality has been hit again
CapturedFieldsWitness ==
    /\ pc = "hits"
    /\ \E p \in 1..Len(candidates) :
          /\ candidates[p].retrieved_by = <<"semantic", "form">>
          /\ candidates[p].source.id = lexeme_id(source_rows[i + 1])

\* C10: a search with topk k over an index of n vectors gives at most
\* min(k, n) hits that create or update a lead, each such hit touches one
\* lead, and a hit with a negative index touches none.
HitsBoundedSentinelsSkipped ==
    [][pc = "hits"
       => /\ Len(results) = cfg.topk
          /\ Cardinality({h \in 1..Len(results) : results[h].idx >= 0})
                <= Min(cfg.topk, Len(CurTarget.index))
          /\ results[hk].idx < 0 => candidates' = candidates
          /\ pc' # "idle" =>
                /\ Len(candidates') <= Len(candidates) + 1
                /\ Cardinality({p \in 1..Len(candidates) :
                                  candidates'[p] # candidates[p]}) <= 1]_vars

\* a search asked for more hits than the index holds and a padded slot
\* was passed over after a lead had been made
SentinelSkippedWitness ==
    /\ pc = "rank"
    /\ results # <<>>
    /\ results[Len(results)].idx < 0
    /\ cfg.topk > Len(CurTarget.index)
    /\ Len(candidates) >= 1

----------------------------------------------------------------------------
(* Ranking and truncation *)

\* the ranking key of a lead as the specification words it
RankKey(e) ==
    << IF "hybrid" \in DOMAIN e THEN TenThousandths(e.hybrid.combined_score)
       ELSE SentinelMin,
       IF e.category = "strong_union" THEN 1 ELSE 0,
       IF "semantic" \in DOMAIN e.scores THEN e.scores["semantic"] ELSE SentinelMin,
       IF "form" \in DOMAIN e.scores THEN e.scores["form"] ELSE SentinelMin >>

\* both leads belong to the same source lexeme
SameSource(a, b) == a.source = b.source

\* C11: the leads of one source lexeme are written in non-increasing order of
\* the key (combined_score, strong_union, semantic score, form score), an
\* absent score counting as the minimum: at equal combined score a
\* strong_union lead comes first, then the higher semantic score, then the
\* higher form score.
LeadsWrittenInKeyOrder ==
    \A p \in 1..(Len(out) - 1) :
        SameSource(out[p], out[p + 1])
            => ~TupleGreater(RankKey(out[p + 1]), RankKey(out[p]))

\* leads of one source lexeme with equal combined scores were written, the
\* strong_union one ahead of one with a higher semantic score
KeyOrderWitness ==
    \E p \in 1..(Len(out) - 1) :
        /\ SameSource(out[p], out[p + 1])
        /\ "hybrid" \in DOMAIN out[p]
        /\ out[p].hybrid.combined_score = out[p + 1].hybrid.combined_score
        /\ out[p].category = "strong_union"
        /\ out[p + 1].category = "semantic_only"
        /\ out[p + 1].scores["semantic"] > out[p].scores["semantic"]

----------------------------------------------------------------------------
(* The weighted mean *)

\* the component values a combined_score call was given, by name
Given(c) ==
    [k \in {"semantic", "form", "orthography", "sound", "skeleton"} |->
        CASE k = "semantic" -> c.semantic_score
          [] k = "form" -> c.form_score
          [] k = "orthography" -> c.orthography
          [] k = "sound" -> c.sound
          [] k = "skeleton" -> c.skeleton]

\* the names of the components that are present
Present(c) == {k \in DOMAIN Given(c) : Given(c)[k] # None}

\* the sum of f over the names ks
RECURSIVE SumOver(_, _)
SumOver(f, ks) ==
    IF ks = {} THEN Zero
    ELSE LET k == CHOOSE x \in ks : TRUE
         IN  RatAdd(f[k], SumOver(f, ks \ {k}))

\* the sum of the weights, and of value times weight, over the present components
WeightSum(c) == SumOver(c.weights, Present(c))
ValueSum(c) == SumOver([k \in Present(c) |-> RatMul(Given(c)[k], c.weights[k])], Present(c))

\* a call of combined_score has returned
CombinedReturned == call.fn = "combined_score" /\ result.done

\* C13: combined_score returns 0.0 and an empty weights_used when no component
\* is present; otherwise the score times the sum of the present weights is the
\* sum of value times weight over the present components, and weights_used
\* maps exactly the present components to their weights.
CombinedIsMeanOfPresent ==
    CombinedReturned =>
        IF Present(call) = {}
        THEN result.value.score = Zero /\ result.value.used = <<>>
        ELSE /\ RatMul(result.value.score, WeightSum(call)) = ValueSum(call)
             /\ result.value.used = [k \in Present(call) |-> call.weights[k]]

\* C13, amended: 0.0 and an empty weights_used also when the weights of the
\* present components sum to zero or less; otherwise the quotient of the two
\* sums, and weights_used maps exactly the present components to their weights.
CombinedIsMeanOfPresentOrZero ==
    CombinedReturned =>
        IF Present(call) = {} \/ RatLeq(WeightSum(call), Zero)
        THEN result.value.score = Zero /\ result.value.used = <<>>
        ELSE /\ result.value.score = RatDiv(ValueSum(call), WeightSum(call))
             /\ result.value.used = [k \in Present(call) |-> call.weights[k]]

\* a call with sound absent and a weight on sound returned a score that is
\* not 0, the present weights summing to more than zero
CombinedWitness ==
    /\ CombinedReturned
    /\ call.sound = None
    /\ call.weights.sound # Zero
    /\ Present(call) # {}
    /\ RatLess(Zero, WeightSum(call))
    /\ result.value.score # Zero

----------------------------------------------------------------------------
(* Range of the combined score *)

\* C14: the combined_score of every lead written lies in [0, 1].
CombinedScoreInUnitInterval ==
    \A p \in 1..Len(out) :
        "hybrid" \in DOMAIN out[p]
            => /\ RatLeq(Zero, out[p].hybrid.combined_score)
               /\ RatLeq(out[p].hybrid.combined_score, One)

----------------------------------------------------------------------------
(* The same-family boost *)

\* the families whose list holds the code, case and surrounding blanks ignored
CodeFamilies(code) ==
    {f \in DOMAIN LANGUAGE_FAMILIES : Lower(Strip(StrOrEmpty(code))) \in LANGUAGE_FAMILIES[f]}

\* both codes resolve to the same family
ResolveToSameFamily(a, b) == CodeFamilies(a) \cap CodeFamilies(b) # {}

\* a score multiplied by (1 + family_boost) and clamped to 1.0
Boosted(score, boost) == RatMin(One, RatMul(score, RatAdd(One, boost)))

\* the weighted mean of a written lead before the boost
PreBoost(lead) ==
    combined_score(ScoreOf(lead, "semantic"), ScoreOf(lead, "form"),
                   lead.hybrid.components.orthography, lead.hybrid.components.sound,
                   lead.hybrid.components.skeleton, cfg.weights).score

\* C16: every written lead whose source and target language codes belong to
\* the same family has family_boost_applied = true and a combined_score that
\* is the weighted mean times (1 + family_boost), clamped to 1.0.
SameFamilyLeadsBoosted ==
    \A p \in 1..Len(out) :
        ("hybrid" \in DOMAIN out[p]
            /\ ResolveToSameFamily(out[p].source.lang, out[p].target.lang))
            => /\ out[p].hybrid.family_boost_applied
               /\ out[p].hybrid.combined_score
                    = Round4(Boosted(PreBoost(out[p]), cfg.weights.family_boost))

----------------------------------------------------------------------------
(* The sound component *)

\* the lexeme has a phonetic transcription: its cleaned (ipa) or its raw
\* (ipa_raw) form holds something besides blanks and punctuation
HasTranscription(lexeme) ==
    \/ _norm_text(StrOrEmpty(Get(lexeme, "ipa"))) # <<>>
    \/ _norm_text(StrOrEmpty(Get(lexeme, "ipa_raw"))) # <<>>

\* C15: sound_score returns None if and only if a side has no phonetic
\* transcription, and compute_hybrid leaves sound out of weights_used exactly
\* then.
SoundAbsentIffNoTranscription ==
    LET absent == ~(HasTranscription(call.source) /\ HasTranscription(call.target))
    IN  /\ (call.fn = "sound_score" /\ result.done)
                => (result.value = None <=> absent)
        /\ (call.fn = "compute_hybrid" /\ result.done)
                => /\ result.value.components.sound = None <=> absent
                   /\ "sound" \in DOMAIN result.value.weights_used <=> ~absent

\* a call of compute_hybrid has returned
HybridReturned == call.fn = "compute_hybrid" /\ result.done

\* the language code a lexeme carries: "lang", else "language", else None
CodeOf(lexeme) ==
    IF Truthy(Get(lexeme, "lang")) THEN lexeme["lang"] ELSE Get(lexeme, "language")

\* the weighted mean of a compute_hybrid call before the boost
PreBoostOfCall ==
    combined_score(call.semantic, call.form, result.value.components.orthography,
                   result.value.components.sound, result.value.components.skeleton,
                   call.weights).score

\* C17: compute_hybrid returns the weighted mean times (1 + family_boost),
\* clamped to 1.0, when the codes of both lexemes resolve to the same family
\* (case and surrounding blanks ignored, an unknown or empty code matching
\* nothing), and the weighted mean itself otherwise; ar / he with a mean of 0.5
\* and a boost of 0.05 gives 0.525.
BoostExactlyForSameFamily ==
    HybridReturned =>
        LET same == ResolveToSameFamily(CodeOf(call.source), CodeOf(call.target))
            pre == PreBoostOfCall
        IN  /\ result.value.combined_score
                 = Round4(IF same THEN Boosted(pre, call.weights.family_boost) ELSE pre)
            /\ (/\ CodeOf(call.source) = <<"a", "r">>
                /\ CodeOf(call.target) = <<"h", "e">>
                /\ pre = Rat(1, 2)
                /\ call.weights.family_boost = Rat(5, 100))
                    => result.value.combined_score = Rat(525, 1000)

\* a call with the codes " AR " and "he", a mean of 0.5 and a boost of 0.05
\* returned 0.525
BoostWitness ==
    /\ HybridReturned
    /\ CodeOf(call.source) = <<" ", "A", "R", " ">>
    /\ CodeOf(call.target) = <<"h", "e">>
    /\ call.weights.family_boost = Rat(5, 100)
    /\ PreBoostOfCall = Rat(1, 2)
    /\ result.value.combined_score = Rat(525, 1000)

----------------------------------------------------------------------------
(* Identity and symmetry of the string scores *)

\* the normalized surface form and the consonant skeleton of a lexeme
SurfaceForm(lexeme) ==
    _norm_text(_first_nonempty(<<Get(lexeme, "translit"), Get(lexeme, "lemma")>>))
ConsonantSkeleton(lexeme) ==
    _skeleton(_first_nonempty(<<Get(lexeme, "ipa"), Get(lexeme, "translit"),
                                Get(lexeme, "lemma")>>))

\* C18: a lexeme with a non-empty normalized surface form scores 1.0 in
\* orthography_score against itself, and a lexeme with a non-empty consonant
\* skeleton scores 1.0 in skeleton_score against itself.
IdenticalLexemesScoreOne ==
    /\ (/\ call.fn = "orthography_score" /\ result.done
         /\ call.source = call.target
         /\ SurfaceForm(call.source) # <<>>)
            => result.value = One
    /\ (/\ call.fn = "skeleton_score" /\ result.done
         /\ call.source = call.target
         /\ ConsonantSkeleton(call.source) # <<>>)
            => result.value = One

\* C19: orthography_score and skeleton_score return the same number when
\* source and target change places.
StringScoresSymmetric ==
    /\ (call.fn = "orthography_score" /\ result.done)
            => result.value = orthography_score(call.target, call.source)
    /\ (call.fn = "skeleton_score" /\ result.done)
            => result.value = skeleton_score(call.target, call.source)

----------------------------------------------------------------------------
(* Two runs with the same arguments *)

\* a run has returned 0 that was started with the arguments of the run
\* before it, rebuild disabled; prev holds what that run left behind
SecondRunDone ==
    /\ pc = "idle" /\ exc = "none"
    /\ prev.same
    /\ ~cfg.rebuild_cache /\ ~cfg.rebuild_index

\* a lead record without its run_id
WithoutRunId(lead) == [k \in DOMAIN lead \ {"run_id"} |-> lead[k]]

\* C20: the second of two runs with the same arguments and rebuild disabled
\* leaves the cached vectors as they were and writes the same lead records
\* in the same order.
RerunWritesSameRecords ==
    SecondRunDone => (cacheVec = prev.vecs /\ out = prev.out)

\* C20, amended: the same lead records apart from their run_id.
RerunWritesSameRecordsButRunId ==
    SecondRunDone
        => /\ cacheVec = prev.vecs
           /\ Len(out) = Len(prev.out)
           /\ \A p \in 1..Len(out) : WithoutRunId(out[p]) = WithoutRunId(prev.out[p])

\* the second run, started a second after the first, has written two leads
\* or more, the same as the first run apart from the run_id
RerunWitness ==
    /\ SecondRunDone
    /\ Len(out) >= 2
    /\ Len(prev.out) = Len(out)
    /\ out[1].run_id # prev.out[1].run_id
    /\ WithoutRunId(out[1]) = WithoutRunId(prev.out[1])

----------------------------------------------------------------------------
(* Transient failures of the hosted backend *)

\* the number of embed_content requests sent for the batch at offset k
RequestsFor(k) == Cardinality({p \in 1..Len(result.requests) : result.requests[p] = k})

\* C21: when embed ends with a transient error, the request of the failing
\* batch had been sent more than once (it was retried) before the error
\* surfaced.
TransientErrorRetried ==
    (call.fn = "GeminiEmbedder.embed" /\ result.done /\ result.raised \in TransientErrors)
        => RequestsFor(result.i) > 1

----------------------------------------------------------------------------
(* embed_corpus on a cache miss: the texts handed to the embedder *)

\* records with and without a lemma, with and without an id
TextRecs ==
    { Rec(<<"k">>, <<"k", " ", " ", "t">>), Rec(<<"k">>, <<>>), Rec(<<" ">>, <<" ">>),
      Rec(None, None), Rec(<<" ", "w">>, <<"\t">>), Rec(None, <<" ", "d", "m">>),
      [k \in {"lemma"} |-> <<>>] }

TextCalls ==
    [fn : {"embed_corpus"},
     rows : {read_jsonl_rows(ls, 0) :
                ls \in UNION {[1..n -> TextRecs] : n \in 0..MaxTexts}}]

InitTexts == Quiet /\ call \in TextCalls /\ result = NoResult

\* lines 140-143
BuildTexts ==
    /\ call.fn = "embed_corpus"
    /\ ~result.done
    /\ result' = [done |-> TRUE, value |-> Texts(call.rows)]
    /\ UNCHANGED <<call, cacheVec, cacheRows, indexFile, pipeVars, concVars>>

NextTexts == BuildTexts

SpecTexts == InitTexts /\ [][NextTexts]_vars

----------------------------------------------------------------------------
(* parse_spec *)

\* str.split(sep) for a one-character separator: empty pieces are kept
RECURSIVE SplitOn(_, _, _, _)
SplitOn(s, sep, cur, acc) ==
    IF s = <<>> THEN Append(acc, cur)
    ELSE IF Head(s) = sep
         THEN SplitOn(Tail(s), sep, <<>>, Append(acc, cur))
         ELSE SplitOn(Tail(s), sep, Append(cur, Head(s)), acc)

\* the position of the first c in s, 0 without one
FirstPos(s, c) ==
    IF \E p \in 1..Len(s) : s[p] = c
    THEN CHOOSE p \in 1..Len(s) : s[p] = c /\ \A q \in 1..(p - 1) : s[q] # c
    ELSE 0

\* str(Path(text)) for a text without a separator
PathOf(text) == IF text = <<>> THEN <<".">> ELSE text

\* raise ValueError(f"Invalid spec {value!r}...")
InvalidSpec(value) == [raised |-> "ValueError", reports |-> value]

\* parse_spec(value), lines 61-74
parse_spec(value) ==
    IF FirstPos(value, "=") = 0 THEN InvalidSpec(value)
    ELSE LET left == SubSeq(value, 1, FirstPos(value, "=") - 1)
             right == SubSeq(value, FirstPos(value, "=") + 1, Len(value))
             parts == SelectSeq(SplitOn(left, "@", <<>>, <<>>), LAMBDA q : q # <<>>)
         IN  IF parts = <<>> THEN InvalidSpec(value)
             ELSE CorpusSpec(parts[1],
                             IF Len(parts) >= 2 THEN parts[2] ELSE <<"u", "n", "k", "n", "o", "w", "n">>,
                             PathOf(right))

SpecChars == {"a", "o", "@", "="}

SpecCalls ==
    [fn : {"parse_spec"}, value : UNION {[1..n -> SpecChars] : n \in 0..MaxSpecLen}]

InitParse == Quiet /\ call \in SpecCalls /\ result = NoResult

CallParseSpec ==
    /\ call.fn = "parse_spec"
    /\ ~result.done
    /\ result' = [done |-> TRUE, value |-> parse_spec(call.value)]
    /\ UNCHANGED <<call, cacheVec, cacheRows, indexFile, pipeVars, concVars>>

NextParse == CallParseSpec

SpecParse == InitParse /\ [][NextParse]_vars

----------------------------------------------------------------------------
(* The leads file: json.dumps(row, ensure_ascii=False) per line (main, lines *)
(* 716-719) and load_leads (report.py).  A Python value is a tagged value:   *)
(* a dict keeps its members in insertion order.                              *)

JStr(chars) == [t |-> "str", v |-> chars]
JInt(n) == [t |-> "int", v |-> n]
\* a float with one decimal, in tenths
JFloat(tenths) == [t |-> "float", v |-> tenths]
JNull == [t |-> "null"]
JArr(items) == [t |-> "arr", v |-> items]
JObj(members) == [t |-> "obj", v |-> members]
Member(k, v) == [k |-> k, v |-> v]

\* json.dumps of the characters of a string with only the quote and the
\* backslash escaped
EscapeNoControl(chars) ==
    IF chars = <<>> THEN <<>>
    ELSE LET F[k \in 0..Len(chars)] ==
                 IF k = 0 THEN <<>>
                 ELSE F[k - 1] \o (IF chars[k] = "\"" THEN <<"\\", "\"">>
                                   ELSE IF chars[k] = "\\" THEN <<"\\", "\\">>
                                   ELSE <<chars[k]>>)
         IN  F[Len(chars)]

\* json.dumps of the characters of a string, ensure_ascii=False: the quote,
\* the backslash and the control characters are escaped, all else is kept
Escape(chars) ==
    IF chars = <<>> THEN <<>>
    ELSE LET F[k \in 0..Len(chars)] ==
                 IF k = 0 THEN <<>>
                 ELSE F[k - 1] \o (IF chars[k] = "\"" THEN <<"\\", "\"">>
                                   ELSE IF chars[k] = "\\" THEN <<"\\", "\\">>
                                   ELSE IF chars[k] = "\n" THEN <<"\\", "n">>
                                   ELSE IF chars[k] = "\t" THEN <<"\\", "t">>
                                   ELSE <<chars[k]>>)
         IN  F[Len(chars)]

\* int.__repr__
IntText(n) == IF n < 0 THEN <<"-">> \o IntStr(0 - n) ELSE IntStr(n)

\* float.__repr__ of a float with one decimal
FloatText(tenths) ==
    LET a == IF tenths < 0 THEN 0 - tenths ELSE tenths
    IN  (IF tenths < 0 THEN <<"-">> ELSE <<>>)
            \o IntStr(a \div 10) \o <<".">> \o <<DigitChars[(a % 10) + 1]>>

\* json.dumps(value, ensure_ascii=False)
RECURSIVE Dumps(_)
RECURSIVE DumpItems(_)
RECURSIVE DumpMembers(_)
DumpItems(items) ==
    IF items = <<>> THEN <<>>
    ELSE IF Len(items) = 1 THEN Dumps(items[1])
    ELSE Dumps(items[1]) \o <<",", " ">> \o DumpItems(Tail(items))

DumpMembers(ms) ==
    IF ms = <<>> THEN <<>>
    ELSE LET m == <<"\"">> \o Escape(ms[1].k) \o <<"\"", ":", " ">> \o Dumps(ms[1].v)
         IN  IF Len(ms) = 1 THEN m ELSE m \o <<",", " ">> \o DumpMembers(Tail(ms))

Dumps(j) ==
    CASE j.t = "str" -> <<"\"">> \o Escape(j.v) \o <<"\"">>
      [] j.t = "int" -> IntText(j.v)
      [] j.t = "float" -> FloatText(j.v)
      [] j.t = "null" -> <<"n", "u", "l", "l">>
      [] j.t = "arr" -> <<"[">> \o DumpItems(j.v) \o <<"]">>
      [] j.t = "obj" -> <<"{">> \o DumpMembers(j.v) \o <<"}">>

\* row.pop(key, None)
Pop(row, key) == JObj(SelectSeq(row.v, LAMBDA m : m.k # key))

\* lines 716-719: the text the loop writes for the ranked rows
RECURSIVE LeadsText(_)
LeadsText(ranked) ==
    IF ranked = <<>> THEN <<>>
    ELSE Dumps(Pop(Pop(ranked[1], <<"_source_fields">>), <<"_target_fields">>))
             \o <<"\n">> \o LeadsText(Tail(ranked))

\* json.loads: a failed parse
Fail == [ok |-> FALSE]
Parsed(val, rest) == [ok |-> TRUE, val |-> val, rest |-> rest]

IsDigit(c) == \E k \in 1..10 : DigitChars[k] = c
DigitVal(c) == (CHOOSE k \in 1..10 : DigitChars[k] = c) - 1

\* the digits at the front of s, as a number, with what follows
RECURSIVE Digits(_, _, _)
Digits(s, n, seen) ==
    IF s # <<>> /\ IsDigit(Head(s))
    THEN Digits(Tail(s), 10 * n + DigitVal(Head(s)), seen + 1)
    ELSE [n |-> n, seen |-> seen, rest |-> s]

\* a JSON number: an int, or a float with one decimal
ParseNumber(s) ==
    LET neg == s # <<>> /\ Head(s) = "-"
        a == Digits(IF neg THEN Tail(s) ELSE s, 0, 0)
        sign == IF neg THEN -1 ELSE 1
    IN  IF a.seen = 0 THEN Fail
        ELSE IF a.rest # <<>> /\ Head(a.rest) = "."
        THEN LET b == Digits(Tail(a.rest), 0, 0)
             IN  IF b.seen # 1 THEN Fail
                 ELSE Parsed(JFloat(sign * (10 * a.n + b.n)), b.rest)
        ELSE Parsed(JInt(sign * a.n), a.rest)

\* the characters of a JSON string after its opening quote
RECURSIVE ParseChars(_, _)
ParseChars(s, acc) ==
    IF s = <<>> THEN Fail
    ELSE IF Head(s) = "\"" THEN Parsed(acc, Tail(s))
    ELSE IF Head(s) \in {"\n", "\t"} THEN Fail
    ELSE IF Head(s) = "\\"
    THEN IF Len(s) < 2 THEN Fail
         ELSE IF s[2] = "n" THEN ParseChars(SubSeq(s, 3, Len(s)), Append(acc, "\n"))
         ELSE IF s[2] = "t" THEN ParseChars(SubSeq(s, 3, Len(s)), Append(acc, "\t"))
         ELSE IF s[2] \in {"\"", "\\"}
         THEN ParseChars(SubSeq(s, 3, Len(s)), Append(acc, s[2]))
         ELSE Fail
    ELSE ParseChars(Tail(s), Append(acc, Head(s)))

RECURSIVE ParseValue(_)
RECURSIVE ParseItems(_, _)
RECURSIVE ParseMembers(_, _)
ParseItems(s, acc) ==
    LET t == LStrip(s)
    IN  IF t # <<>> /\ Head(t) = "]" /\ acc = <<>> THEN Parsed(JArr(<<>>), Tail(t))
        ELSE LET r == ParseValue(t)
             IN  IF ~r.ok THEN Fail
                 ELSE LET u == LStrip(r.rest)
                      IN  IF u = <<>> THEN Fail
                          ELSE IF Head(u) = "," THEN ParseItems(Tail(u), Append(acc, r.val))
                          ELSE IF Head(u) = "]"
                          THEN Parsed(JArr(Append(acc, r.val)), Tail(u))
                          ELSE Fail

ParseMembers(s, acc) ==
    LET t == LStrip(s)
    IN  IF t = <<>> THEN Fail
        ELSE IF Head(t) = "}" /\ acc = <<>> THEN Parsed(JObj(<<>>), Tail(t))
        ELSE IF Head(t) # "\"" THEN Fail
        ELSE LET k == ParseChars(Tail(t), <<>>)
             IN  IF ~k.ok THEN Fail
                 ELSE LET u == LStrip(k.rest)
                      IN  IF u = <<>> \/ Head(u) # ":" THEN Fail
                          ELSE LET r == ParseValue(Tail(u))
                               IN  IF ~r.ok THEN Fail
                                   ELSE LET w == LStrip(r.rest)
                                            ms == Append(acc, Member(k.val, r.val))
                                        IN  IF w = <<>> THEN Fail
                                            ELSE IF Head(w) = ","
                                            THEN ParseMembers(Tail(w), ms)
                                            ELSE IF Head(w) = "}"
                                            THEN Parsed(JObj(ms), Tail(w))
                                            ELSE Fail

ParseValue(s) ==
    LET t == LStrip(s)
    IN  IF t = <<>> THEN Fail
        ELSE IF Head(t) = "\""
        THEN LET r == ParseChars(Tail(t), <<>>)
             IN  IF r.ok THEN Parsed(JStr(r.val), r.rest) ELSE Fail
        ELSE IF Head(t) = "{" THEN ParseMembers(Tail(t), <<>>)
        ELSE IF Head(t) = "[" THEN ParseItems(Tail(t), <<>>)
        ELSE IF Head(t) = "n"
        THEN IF Len(t) >= 4 /\ SubSeq(t, 1, 4) = <<"n", "u", "l", "l">>
             THEN Parsed(JNull, SubSeq(t, 5, Len(t)))
             ELSE Fail
        ELSE ParseNumber(t)

\* json.loads(line): the whole line is one value
Loads(line) ==
    LET r == ParseValue(line)
    IN  IF r.ok /\ LStrip(r.rest) = <<>> THEN r ELSE Fail

\* "for line in f": the lines of a text, each with its line break
FileLines(text) ==
    LET ends == {p \in 1..Len(text) : text[p] = "\n"} \cup
                    (IF text # <<>> /\ text[Len(text)] # "\n" THEN {Len(text)} ELSE {})
        EndOf(k) == CHOOSE p \in ends : Cardinality({q \in ends : q < p}) = k - 1
    IN  [k \in 1..Cardinality(ends) |->
            SubSeq(text, IF k = 1 THEN 1 ELSE EndOf(k - 1) + 1, EndOf(k))]

\* load_leads(path) with min_score 0.0, report.py lines 28-45
RECURSIVE LoadLines(_, _)
LoadLines(lines, leads) ==
    IF lines = <<>> THEN leads
    ELSE LET line == Strip(Head(lines))
         IN  IF line = <<>> THEN LoadLines(Tail(lines), leads)
             ELSE IF ~Loads(line).ok THEN LoadLines(Tail(lines), leads)
             ELSE LoadLines(Tail(lines), Append(leads, Loads(line).val))

load_leads(text) == LoadLines(FileLines(text), <<>>)

\* a candidate entry as line 715 hands it to the writing loop
LeadEntry(lemma_, translit, score, models) ==
    JObj(<< Member(<<"run_id">>, JStr(<<"2", "0", "2", "6">>)),
            Member(<<"source">>,
                   JObj(<< Member(<<"row_idx">>, JInt(12)),
                           Member(<<"lemma">>, JStr(lemma_)),
                           Member(<<"translit">>, translit) >>)),
            Member(<<"scores">>, JObj(<< Member(<<"semantic">>, JFloat(score)) >>)),
            Member(<<"retrieved_by">>, JArr([k \in 1..Len(models) |-> JStr(models[k])])),
            Member(<<"_source_fields">>, JObj(<< Member(<<"lemma">>, JStr(lemma_)) >>)),
            Member(<<"_target_fields">>, JObj(<< Member(<<"ipa">>, JNull) >>)) >>)

LeadEntries ==
    { LeadEntry(<<"k", "t">>, JNull, 5, << <<"semantic">> >>),
      LeadEntry(<<"U+0643", "U+062A", "U+0628">>, JStr(<<"k", "U+0101">>), -3,
                << <<"semantic">>, <<"form">> >>),
      LeadEntry(<<"a", "\"", "\\", "n">>, JStr(<<>>), 10, <<>>),
      LeadEntry(<<"a", "\n", " ", "b", "\t">>, JStr(<<" ">>), 0, << <<"form">> >>),
      LeadEntry(<<"{", "}", ",", ":">>, JStr(<<"[", "1", ".", "5", "]">>), 127,
                << <<"semantic">> >>),
      LeadEntry(<<>>, JStr(<<"n", "u", "l", "l">>), -10, << <<"U+00E9">> >>) }

LeadCalls ==
    [fn : {"load_leads"}, ranked : UNION {[1..n -> LeadEntries] : n \in 0..MaxLeads}]

InitLeads == Quiet /\ call \in LeadCalls /\ result = NoResult

\* main, lines 716-719, for the ranked rows of the call
WriteLeads ==
    /\ call.fn = "load_leads"
    /\ "file" \notin DOMAIN result
    /\ result' = [done |-> FALSE, file |-> LeadsText(call.ranked)]
    /\ UNCHANGED <<call, cacheVec, cacheRows, indexFile, pipeVars, concVars>>

\* load_leads on the file written
LoadLeads ==
    /\ call.fn = "load_leads"
    /\ "file" \in DOMAIN result
    /\ ~result.done
    /\ result' = [done |-> TRUE, file |-> result.file, value |-> load_leads(result.file)]
    /\ UNCHANGED <<call, cacheVec, cacheRows, indexFile, pipeVars, concVars>>

NextLeads == WriteLeads \/ LoadLeads

SpecLeads == InitLeads /\ [][NextLeads]_vars

----------------------------------------------------------------------------
(* Runs that change --semantic-model and --form-model (lines 501-503,     *)
(* 526-527) between them                                                    *)

ModelIdConfigs ==
    [models : {<<"semantic", "form">>}, sources : SourceLists,
     targets : {<<AraCla2, AraCla1>>},
     backend : {"local"}, limit : {0, 1}, topk : {MaxTopK}, max_out : {2},
     rebuild_cache : BOOLEAN, rebuild_index : {FALSE},
     semantic_model : {"BAAI/bge-m3", "BAAI/bge-small-en"},
     form_model : {"google/byt5-small", "google/byt5-base"},
     no_hybrid : {TRUE}, weights : {DefaultWeights}]

StartModelIdRun == Start(ModelIdConfigs, {1})

NextModelIds ==
    \/ StartModelIdRun
    \/ EmbedCorpusHit
    \/ EmbedCorpusMiss
    \/ SaveRows
    \/ CrashInSave
    \/ Search
    \/ SearchNoQuery
    \/ SkipSentinel
    \/ HitOutOfRange
    \/ HitLead
    \/ Classify
    \/ Rank

SpecModelIds == Init /\ [][NextModelIds]_vars

----------------------------------------------------------------------------
(* The run interrupted from the keyboard while a source lexeme is processed: *)
(* the ranking of lines 704-719 one written line per step.                   *)

\* line 715: ranked = sorted(...)[:max_out]; with nothing to write the loop of
\* line 604 moves on
SortLeads ==
    /\ pc = "rank"
    /\ LET ranked == Ranked(candidates, cfg.max_out)
       IN  IF ranked = <<>>
           THEN EnterRow(i + 1)
           ELSE /\ pc' = "write"
                /\ candidates' = ranked
                /\ UNCHANGED <<cfg, tm, ts, target_indexes, si, sm, source_rows, svecs,
                               srows, i, hm, ht, hk, results, pend, ret, exc>>
    /\ UNCHANGED <<cacheVec, cacheRows, indexFile, out, embeds, runs, kills>>
    /\ UNCHANGED <<run_id, prev>>
    /\ UNCHANGED <<concVars, scoreVars>>

\* lines 716-719: one pass of "for row in ranked", one line written
WriteLead ==
    /\ pc = "write"
    /\ out' = Append(out, Written(Head(candidates)))
    /\ IF Len(candidates) = 1
       THEN EnterRow(i + 1)
       ELSE /\ candidates' = Tail(candidates)
            /\ UNCHANGED <<pc, cfg, tm, ts, target_indexes, si, sm, source_rows, svecs,
                           srows, i, hm, ht, hk, results, pend, ret, exc>>
    /\ UNCHANGED <<cacheVec, cacheRows, indexFile, embeds, runs, kills>>
    /\ UNCHANGED <<run_id, prev>>
    /\ UNCHANGED <<concVars, scoreVars>>

\* KeyboardInterrupt raised inside the loop of lines 604-719: main has no
\* handler, the with block of line 580 closes the file and the exception
\* leaves main
Cancel ==
    /\ pc \in {"search", "hits", "classify", "rank", "write"}
    /\ pc' = "idle"
    /\ exc' = "KeyboardInterrupt"
    /\ LocalsCleared
    /\ UNCHANGED <<cacheVec, cacheRows, indexFile, out, embeds, runs, kills>>
    /\ UNCHANGED <<run_id, prev>>
    /\ UNCHANGED <<concVars, scoreVars>>

NextCancel ==
    \/ StartRun
    \/ EmbedCorpusHit
    \/ EmbedCorpusMiss
    \/ SaveRows
    \/ CrashInSave
    \/ Search
    \/ SearchNoQuery
    \/ SkipSentinel
    \/ HitOutOfRange
    \/ HitLead
    \/ Classify
    \/ SortLeads
    \/ WriteLead
    \/ Cancel

SpecCancel == Init /\ [][NextCancel]_vars

----------------------------------------------------------------------------
(* One source lexeme at a time *)

\* the loop body of lines 605-670 run from an empty candidate map for source
\* row k: every model, every target index, every hit
RECURSIVE HitsInto(_, _, _, _, _)
HitsInto(cands, k, model, tgt, hits) ==
    IF hits = <<>> THEN cands
    ELSE IF ~ValidHit(Head(hits)) \/ ~InRange(tgt.rows, Head(hits).idx)
    THEN HitsInto(cands, k, model, tgt, Tail(hits))
    ELSE HitsInto(ApplyHit(cands, model, Head(hits), source_rows[k + 1], cfg.sources[si],
                           RowAt(tgt.rows, Head(hits).idx), tgt.spec),
                  k, model, tgt, Tail(hits))

RECURSIVE TargetsInto(_, _, _, _)
TargetsInto(cands, k, model, tgts) ==
    IF tgts = <<>> THEN cands
    ELSE TargetsInto(HitsInto(cands, k, model, Head(tgts),
                              search_index(Head(tgts).index, svecs[model][k + 1], cfg.topk)),
                     k, model, Tail(tgts))

RECURSIVE ModelsInto(_, _, _)
ModelsInto(cands, k, models) ==
    IF models = <<>> THEN cands
    ELSE ModelsInto(TargetsInto(cands, k, Head(models), target_indexes[Head(models)]),
                    k, Tail(models))

\* the leads of source row k as lines 672-719 write them
LexemeLeads(k) ==
    LET cands == ModelsInto(<<>>, k, cfg.models)
        ranked == Ranked([p \in 1..Len(cands) |-> Classified(cands[p])], cfg.max_out)
    IN  [p \in 1..Len(ranked) |-> Written(ranked[p])]

\* a step enters a source row
StartsRow == pc' = "search" /\ pc \notin {"search", "hits"}

\* the written leads come source row after source row
GroupedBySource(leads) ==
    \A p \in 1..(Len(leads) - 1) : leads[p].source.row_idx <= leads[p + 1].source.row_idx

\* C28: the candidate map is empty when a source lexeme is entered, every
\* candidate belongs to the lexeme being processed, the leads are written
\* grouped by source lexeme in source-row order, and what is written for a
\* lexeme is what its own retrieval, scoring and ranking give from an empty
\* candidate map.
NoStateAcrossLexemes ==
    [][/\ StartsRow => candidates' = <<>>
       /\ \A p \in 1..Len(candidates') :
             candidates'[p].source = Side(source_rows'[i' + 1], cfg'.sources[si'])
       /\ pc = "rank" => SubSeq(out', Len(out) + 1, Len(out')) = LexemeLeads(i)
       /\ GroupedBySource(out')]_vars

\* leads were written for a second source lexeme after those of the first
SecondLexemeWitness ==
    /\ Len(out) >= 2
    /\ out[1].source.row_idx = 0
    /\ out[Len(out)].source.row_idx = 1

\* every model has a query for source row k and every hit names a target row
Retrievable(k) ==
    \A m \in 1..Len(cfg.models) :
        /\ k + 1 <= Len(svecs[cfg.models[m]])
        /\ \A t \in 1..Len(target_indexes[cfg.models[m]]) :
              LET tgt == target_indexes[cfg.models[m]][t]
                  hits == search_index(tgt.index, svecs[cfg.models[m]][k + 1], cfg.topk)
              IN  \A h \in 1..Len(hits) :
                      ValidHit(hits[h]) => InRange(tgt.rows, hits[h].idx)

\* the leads of the lexeme in hand that are not in the output yet
RemainingLeads ==
    IF pc = "write"
    THEN [p \in 1..Len(candidates) |-> Written(candidates[p])]
    ELSE LexemeLeads(i)

\* C22: when the run is cancelled while a source lexeme is being processed,
\* that lexeme is finished first: all of its ranked leads are in the output
\* when the run ends.
CancelledLexemeFinishes ==
    [][(exc' = "KeyboardInterrupt" /\ (pc = "write" \/ Retrievable(i)))
          => out' = out \o RemainingLeads]_vars

\* t is s with every run of whitespace collapsed to one space and none at
\* either end
IsCollapsed(t, s) ==
    /\ SelectSeq(t, LAMBDA c : ~IsSpace(c)) = SelectSeq(s, LAMBDA c : ~IsSpace(c))
    /\ Len(Split(t, <<>>, <<>>)) = Len(Split(s, <<>>, <<>>))
    /\ \A p \in 1..Len(t) :
          IsSpace(t[p]) => t[p] = " " /\ 1 < p /\ p < Len(t) /\ ~IsSpace(t[p + 1])

\* the stable id of a row: its id, or row:<index> without one
StableId(r) ==
    LET v == Get(r.data, "id")
    IN  IF v # None /\ Strip(v) # <<>> THEN Strip(v)
        ELSE <<"r", "o", "w", ":">> \o IntStr(r.row_idx)

\* the lemma of a row as text
LemmaText(r) == LET v == Get(r.data, "lemma") IN IF v = None THEN <<>> ELSE v

\* C23: on a cache miss the embedder gets one text per row, in row order,
\* none of them empty: the whitespace-collapsed lemma, or without a lemma
\* the stable id, which is row:<index> for a row without an id.
OneTextPerRow ==
    (call.fn = "embed_corpus" /\ result.done) =>
        /\ Len(result.value) = Len(call.rows)
        /\ \A k \in 1..Len(call.rows) :
              /\ result.value[k] # <<>>
              /\ IF \E c \in 1..Len(LemmaText(call.rows[k])) :
                        ~IsSpace(LemmaText(call.rows[k])[c])
                 THEN IsCollapsed(result.value[k], LemmaText(call.rows[k]))
                 ELSE result.value[k] = StableId(call.rows[k])

\* texts were built for a row with a lemma to collapse, a row with only an
\* id and a row with neither
TextFallbackWitness ==
    /\ call.fn = "embed_corpus" /\ result.done
    /\ Len(call.rows) = 3
    /\ result.value[1] = <<"k", " ", "t">>
    /\ call.rows[2].data = Rec(<<" ", "w">>, <<"\t">>) /\ result.value[2] = <<"w">>
    /\ call.rows[3].data = Rec(None, None) /\ result.value[3] = <<"r", "o", "w", ":", "2">>

\* the text of s before the first c (all of s without one) and after it
TextBefore(s, c) == IF FirstPos(s, c) = 0 THEN s ELSE SubSeq(s, 1, FirstPos(s, c) - 1)
TextAfter(s, c) == IF FirstPos(s, c) = 0 THEN <<>> ELSE SubSeq(s, FirstPos(s, c) + 1, Len(s))

\* value has the form <language>[@<stage>]=<path>
HasSpecForm(value) ==
    /\ FirstPos(value, "=") # 0
    /\ TextBefore(TextBefore(value, "="), "@") # <<>>
    /\ FirstPos(TextAfter(TextBefore(value, "="), "@"), "@") = 0

Rejected(r) == "raised" \in DOMAIN r

\* C24: parse_spec accepts exactly <language>[@<stage>]=<path>: it returns the
\* language before '@', the stage after it ('unknown' when omitted) and the
\* path after the first '='; a value with no '=' or no language part is
\* rejected with an error that reports the value.
ParseSpecAcceptsExactlyTheForm ==
    (call.fn = "parse_spec" /\ result.done) =>
        IF HasSpecForm(call.value)
        THEN /\ ~Rejected(result.value)
             /\ result.value.lang = TextBefore(TextBefore(call.value, "="), "@")
             /\ result.value.stage =
                    (IF TextAfter(TextBefore(call.value, "="), "@") = <<>>
                     THEN <<"u", "n", "k", "n", "o", "w", "n">>
                     ELSE TextAfter(TextBefore(call.value, "="), "@"))
             /\ result.value.path = PathOf(TextAfter(call.value, "="))
        ELSE /\ Rejected(result.value)
             /\ result.value.reports = call.value

\* the members of a row without the two working blocks
WithoutWorkingFields(row) ==
    JObj(SelectSeq(row.v, LAMBDA m : m.k \notin {<<"_source_fields">>, <<"_target_fields">>}))

\* dict[key]
MemberOf(j, key) == j.v[CHOOSE m \in 1..Len(j.v) : j.v[m].k = key].v

SourceLemma(row) == MemberOf(MemberOf(row, <<"source">>), <<"lemma">>).v

\* C25: N leads written and parsed again give N records, in the order
\* written, each with the fields and values of the lead written, non-ASCII
\* text included, and none with a _source_fields or _target_fields member.
LeadsRoundTrip ==
    (call.fn = "load_leads" /\ result.done) =>
        /\ Len(result.value) = Len(call.ranked)
        /\ \A k \in 1..Len(call.ranked) :
              /\ result.value[k] = WithoutWorkingFields(call.ranked[k])
              /\ \A m \in 1..Len(result.value[k].v) :
                    result.value[k].v[m].k \notin {<<"_source_fields">>, <<"_target_fields">>}

\* two leads were written and read back, one with Arabic text and one with
\* a line break in its lemma
RoundTripWitness ==
    /\ call.fn = "load_leads" /\ result.done
    /\ Len(result.value) = 2
    /\ SourceLemma(result.value[1]) = <<"U+0643", "U+062A", "U+0628">>
    /\ SourceLemma(result.value[2]) = <<"a", "\n", " ", "b", "\t">>

----------------------------------------------------------------------------
(* The text behind the consonant skeleton *)

\* the phonetic transcription of a lexeme (cleaned, else raw), else its
\* transliteration, else its lemma
SkeletonText(lexeme) ==
    LET has(f) == Strip(StrOrEmpty(Get(lexeme, f))) # <<>>
    IN  IF has("ipa") THEN Strip(lexeme.ipa)
        ELSE IF has("ipa_raw") THEN Strip(lexeme.ipa_raw)
        ELSE IF has("translit") THEN Strip(lexeme.translit)
        ELSE IF has("lemma") THEN Strip(lexeme.lemma)
        ELSE <<>>

\* neither a vowel, nor a long-vowel carrier, nor a non-letter
ConsonantsOnly(text) ==
    \A p \in 1..Len(text) :
        /\ IsAlpha(text[p])
        /\ text[p] \notin _DEFAULT_VOWELS
        /\ text[p] \notin _ARABIC_MATRES

\* C26: skeleton_score scores the skeletons of the two sides' texts, each the
\* phonetic transcription when the lexeme has one (cleaned form, else raw
\* form), else the transliteration, else the lemma; a skeleton holds no
\* vowel, no long-vowel carrier and no non-letter, and the score is 0.0 when
\* either skeleton is empty.
SkeletonFromTranscriptionFirst ==
    (call.fn = "skeleton_score" /\ result.done) =>
        LET a == _skeleton(SkeletonText(call.source))
            b == _skeleton(SkeletonText(call.target))
        IN  /\ ConsonantsOnly(a) /\ ConsonantsOnly(b)
            /\ result.value = skeleton_score([lemma |-> a], [lemma |-> b])
            /\ (a = <<>> \/ b = <<>>) => result.value = Zero

----------------------------------------------------------------------------
(* The order of the candidate map *)

\* the orders in which n entries can have been inserted
InsertionOrders(n) == {f \in [1..n -> 1..n] : \A p, q \in 1..n : f[p] = f[q] => p = q}

\* the lines written for a candidate map
WrittenFor(cands) ==
    LET ranked == Ranked(cands, cfg.max_out)
    IN  [p \in 1..Len(ranked) |-> Written(ranked[p])]

\* C27: the sequence of leads written for a source lexeme depends on their
\* sort keys only: with the same entries inserted into the candidate map in
\* any other order, leads with equal sort keys included, the same sequence
\* is written.
WrittenSequenceIgnoresInsertionOrder ==
    [][pc = "rank" =>
          \A f \in InsertionOrders(Len(candidates)) :
              WrittenFor([p \in 1..Len(candidates) |-> candidates[f[p]]])
                  = WrittenFor(candidates)]_vars

----------------------------------------------------------------------------
(* Every lead is classified *)

\* C29: no written lead has the category unclassified: every entry of the
\* candidate map has a semantic or a form score from the moment it is
\* inserted, whatever models, target corpora and hits the run has.
NoLeadUnclassified ==
    /\ \A p \in 1..Len(out) : out[p].category # "unclassified"
    /\ \A p \in 1..Len(candidates) :
          /\ DOMAIN candidates[p].scores \cap {"semantic", "form"} # {}
          /\ "category" \in DOMAIN candidates[p] =>
                candidates[p].category # "unclassified"

\* leads of a run with both models were written, one found by both models
\* and one found by a single model
MixedCategoriesWitness ==
    /\ Len(cfg.models) = 2
    /\ \E p, q \in 1..Len(out) :
          /\ out[p].category = "strong_union"
          /\ out[q].category \in {"semantic_only", "form_only"}

----------------------------------------------------------------------------
(* The configuration behind the vectors of a run *)

\* every vector of vecs was computed by the embedder the current run
\* constructs for model
FromCurrentEmbedder(vecs, model) ==
    \A k \in 1..Len(vecs) : vecs[k].e = Embedder(cfg.backend, model, cfg)

\* C30: in a run without rebuild, the vectors embed_corpus returns for a
\* model, and the index searched for it, were computed with the backend and
\* the model configuration of this run, whatever runs came before.
VectorsOfCurrentConfiguration ==
    (pc # "idle" /\ ~cfg.rebuild_cache /\ ~cfg.rebuild_index) =>
        /\ ret.exists => FromCurrentEmbedder(ret.vecs, ret.key[1][2])
        /\ \A m \in Models : \A t \in 1..Len(target_indexes[m]) :
              FromCurrentEmbedder(target_indexes[m][t].index, m)

====
